---- MODULE Spec2Model ----
(***************************************************************************)
(* A model of plm-put-playlist (src/src/bin/plm-put-playlist.rs): the      *)
(* copy orchestrator, the error tracker and the progress counters of one   *)
(* invocation of the put tool.                                             *)
(*                                                                         *)
(* Strings are sequences of tokens: "/" is the path separator, every other *)
(* token is a name that contains no separator.  A path such as             *)
(* /MUSIC/d/b is << "/", "MUSIC", "/", "d", "/", "b" >>.                   *)
(***************************************************************************)
EXTENDS Naturals, Integers, Sequences, FiniteSets, TLC

\* ------------------------------------------------------------------------
\* Bounds of the model
\* ------------------------------------------------------------------------
\* the longest command line (number of playlist arguments)
MaxPlaylists == 2
\* the largest number of media lines of one playlist
MaxEntries == 2
\* the largest number of lines of the failure log given to --retry
MaxLogLines == 2
\* the largest number of failures of the tracker whose log is parsed back
MaxFailures == 2
\* the largest number of bytes of a playlist file that is copied or scanned
MaxBytes == 4

\* ------------------------------------------------------------------------
\* The file system the tool runs on
\* ------------------------------------------------------------------------
\* two playlists of the same directory and one of another directory
P1 == << "/", "MUSIC", "/", "p1" >>
P2 == << "/", "MUSIC", "/", "p2" >>
P3 == << "/", "lib", "/", "p3" >>
PlaylistFiles == {P1, P2, P3}

\* relative media paths, as a playlist lists them
RelA == << "a" >>
RelB == << "d", "/", "b" >>
RelPaths == {RelA, RelB}

\* the previous content of the file named by --error-files
OldLog == << << "old" >> >>

SeqsUpTo(S, n) == UNION {[1..k -> S] : k \in 0..n}

Last(s) == s[Len(s)]

Range(s) == {s[k] : k \in 1..Len(s)}

\* ------------------------------------------------------------------------
\* std::path
\* ------------------------------------------------------------------------
\* the position of the last separator of p, 0 when there is none
LastSlash(p) ==
    LET idx == {k \in 1..Len(p) : p[k] = "/"}
    IN IF idx = {} THEN 0 ELSE CHOOSE k \in idx : \A j \in idx : j <= k

\* p without its trailing separators (the root "/" is kept)
StripTrailing(p) ==
    LET keep == {k \in 1..Len(p) : p[k] # "/"}
    IN IF keep = {} THEN (IF p = << >> THEN << >> ELSE << "/" >>)
       ELSE SubSeq(p, 1, CHOOSE k \in keep : \A j \in keep : j <= k)

\* Path::parent, with the fallback "." of the callers when there is none
PathParent(p) ==
    LET q == StripTrailing(p)
        s == LastSlash(q)
    IN IF q = << >> \/ q = << "/" >> THEN << "." >>
       ELSE IF s = 0 THEN << >>
       ELSE IF s = 1 THEN << "/" >>
       ELSE StripTrailing(SubSeq(q, 1, s - 1))

\* Path::file_name, empty when there is none
PathFileName(p) ==
    LET q == StripTrailing(p)
        s == LastSlash(q)
    IN IF q = << >> \/ q = << "/" >> \/ Last(q) = ".." THEN << >>
       ELSE SubSeq(q, s + 1, Len(q))

\* Path::join
PathJoin(base, rel) ==
    IF rel # << >> /\ Head(rel) = "/" THEN rel
    ELSE IF base = << >> THEN rel
    ELSE IF Last(base) = "/" THEN base \o rel
    ELSE base \o << "/" >> \o rel

\* ------------------------------------------------------------------------
\* parse_error_file
\* ------------------------------------------------------------------------
\* str::trim: s without its leading and trailing blanks
Trim(s) ==
    LET keep == {k \in 1..Len(s) : s[k] # " "}
    IN IF keep = {} THEN << >>
       ELSE SubSeq(s, CHOOSE k \in keep : \A n \in keep : k <= n,
                      CHOOSE k \in keep : \A n \in keep : n <= k)

\* str::starts_with for the two prefixes of the failure log
StartsWith(line, tag) == Len(line) >= 2 /\ line[1] = tag /\ line[2] = " "

\* the rest of a line after its two-character prefix, trimmed
AfterPrefix(line) == Trim(SubSeq(line, 3, Len(line)))

\* str::find("/MUSIC/"): the position of the first occurrence, 0 when none
MusicIdx(p) ==
    LET idx == {k \in 1..Len(p) :
                   k + 2 <= Len(p) /\ p[k] = "/" /\ p[k + 1] = "MUSIC" /\ p[k + 2] = "/"}
    IN IF idx = {} THEN 0 ELSE CHOOSE k \in idx : \A n \in idx : k <= n

\* the (src_basedir, file) pairs an "M" path gives: one pair, or none when
\* the relative path or the file name is empty
parse_media_path(p) ==
    LET m == MusicIdx(p) IN
    IF m > 0
    THEN IF SubSeq(p, m + 3, Len(p)) # << >>
         THEN << << SubSeq(p, 1, m + 2), SubSeq(p, m + 3, Len(p)) >> >>
         ELSE << >>
    ELSE IF PathFileName(p) # << >>
         THEN << << PathParent(p), PathFileName(p) >> >>
         ELSE << >>

\* the playlists and the media files parse_error_file returns for the lines
\* of a failure log
RECURSIVE parsed_playlists(_)
parsed_playlists(lines) ==
    IF lines = << >> THEN << >>
    ELSE (IF StartsWith(Head(lines), "P") THEN << AfterPrefix(Head(lines)) >> ELSE << >>)
         \o parsed_playlists(Tail(lines))

RECURSIVE parsed_media(_)
parsed_media(lines) ==
    IF lines = << >> THEN << >>
    ELSE (IF StartsWith(Head(lines), "M")
          THEN parse_media_path(AfterPrefix(Head(lines)))
          ELSE << >>)
         \o parsed_media(Tail(lines))

\* the lines a failure log given to --retry is made of: the two kinds of
\* records, for paths under a MUSIC directory and under another one, the
\* record of a file whose name ends with a blank, and a line that is no
\* record
LogLines ==
    { << "P", " " >> \o P1,
      << "P", " " >> \o P3,
      << "M", " ", "/", "MUSIC", "/", "a" >>,
      << "M", " ", "/", "MUSIC", "/", "a", " " >>,
      << "M", " ", "/", "MUSIC", "/", "d", "/", "b" >>,
      << "M", " ", "/", "lib", "/", "a" >>,
      << "M", " ", "/", "lib", "/", "d", "/", "b" >>,
      << "#", " ", "x" >> }

\* the media items a run can name: those of the playlists of this file
\* system, and those of the "M" lines of a failure log
Items ==
    {<< PathParent(p), f >> : p \in PlaylistFiles, f \in RelPaths}
    \cup UNION {Range(parsed_media(<< l >>)) : l \in LogLines}

VARIABLES
    \* the command line (Cli)
    playlists, keep_going, lyrics, error_files, retry_file,
    \* the source file system: the media lines of each playlist file, the
    \* playlist files that cannot be opened, the lines of the file named by
    \* --retry
    fs_content, fs_unreadable, retry_log,
    \* the file named by --error-files, a sequence of lines
    error_log,
    \* control: where the run is, and the playlist the loop is at
    pc, i,
    \* retry_operations: the playlists and the media files of the failure
    \* log, and the media file the second loop is at
    retry_playlists, retry_media, i_media,
    \* process_normal_operations, retry_operations
    total_media_files, successful_media_files, successful_playlists,
    media_files_map, copied_files,
    \* copy_media_files: the call in progress
    src_basedir, files_vec, successful_files,
    \* ErrorTracker.failures
    failures,
    \* what the run has printed: progress messages, the summary; its exit code
    msgs, summary, exit_code,
    \* the destination tree: the files the run has written there
    dest_files,
    \* observers: the number of copy attempts of each media item; for each
    \* media item, the position in the loop of each successful copy of it;
    \* the playlists given to process_playlist, each with its result; the
    \* playlist and media failures in the order they happened; the entries of
    \* the failure log in the order a retry run has taken them up; the media
    \* items whose lyrics file could not be copied
    attempts, copies, processed, fail_hist, retry_hist, lyrics_hist,
    \* the number of copies of a lyrics file the run has attempted
    sidecar_attempts,
    \* the functions exercised on their own: the bytes of a playlist file,
    \* the bytes copy_playlist_file has written for it, the lines
    \* read_playlist has returned for it
    playlist_content, dest_playlist, scanned,
    \* the tools and functions exercised on their own: the playlists and
    \* media items given to the copy functions, and the files these have
    \* written, each with its source
    place_items, fs_written,
    \* the delete tool: its media flag, the files and the directories that
    \* exist, and the operations of the run that have failed
    media, tree, dirs, del_trace,
    \* generic_copy_file: the files and the results of the file system at
    \* the call with the answer of the callback, and what the call returned
    copy_call, copy_out

vars == << playlists, keep_going, lyrics, error_files, retry_file, fs_content,
           fs_unreadable, retry_log, error_log, pc, i, retry_playlists, retry_media, i_media, total_media_files, successful_media_files,
           successful_playlists, media_files_map, copied_files, src_basedir,
           files_vec, successful_files, failures, msgs, summary, exit_code,
           dest_files, attempts, copies, processed, fail_hist, retry_hist,
           lyrics_hist, sidecar_attempts, playlist_content, dest_playlist, scanned,
           place_items, fs_written, media, tree, dirs, del_trace,
           copy_call, copy_out >>

cli == << playlists, keep_going, lyrics, error_files, retry_file >>
fs == << fs_content, fs_unreadable, retry_log >>
retry_work == << retry_playlists, retry_media, i_media >>
delete_state == << media, tree, dirs, del_trace >>
copy_state == << copy_call, copy_out >>
tools == << place_items, fs_written, delete_state, copy_state >>
units == << playlist_content, dest_playlist, scanned, tools >>
observers == << attempts, copies, processed, fail_hist, retry_hist, lyrics_hist, sidecar_attempts >>

NoSummary == << >>
\* Option::None of a path option of the command line
NoPath == << >>
ErrPath == << "/", "err" >>
RetryPath == << "/", "retry" >>
\* another spelling of the path of the same file
RetryAlias == << "/", ".", "/", "retry" >>

\* the file a path names: the path without its "." components
Canonical(p) ==
    LET keep == SelectSeq([k \in 1..Len(p) |-> k],
                          LAMBDA k : /\ p[k] # "."
                                     /\ ~(p[k] = "/" /\ k > 1 /\ p[k - 1] = "."))
    IN [n \in 1..Len(keep) |-> p[keep[n]]]

\* the two paths name the same file
same_file(p, q) == Canonical(p) = Canonical(q)

\* ------------------------------------------------------------------------
\* ErrorTracker
\* ------------------------------------------------------------------------
add_failed_playlist_twice(fl, playlist) ==
    Append(Append(fl, << "Playlist", playlist >>), << "Playlist", playlist >>)

add_failed_playlist(fl, playlist) == Append(fl, << "Playlist", playlist >>)

add_failed_media_file_swapped(fl, basedir, file) ==
    Append(fl, << "MediaFile", file, basedir >>)

add_failed_media_file(fl, basedir, file) == Append(fl, << "MediaFile", basedir, file >>)

track_media_file_never(fl, basedir, file) == fl

\* the tracker is an Option: nothing is recorded without --error-files
track_playlist(fl, playlist) ==
    IF error_files # NoPath THEN add_failed_playlist(fl, playlist) ELSE fl

track_media_file(fl, basedir, file) ==
    IF error_files # NoPath THEN add_failed_media_file(fl, basedir, file) ELSE fl

\* one line of the failure log
failure_line(failure) ==
    IF failure[1] = "Playlist"
    THEN << "P", " " >> \o failure[2]
    ELSE << "M", " " >> \o PathJoin(failure[2], failure[3])

write_to_file_grouped(fl) ==
    LET ps == SelectSeq(fl, LAMBDA f : f[1] = "Playlist")
        ms == SelectSeq(fl, LAMBDA f : f[1] = "MediaFile")
    IN [k \in 1..Len(fl) |->
           failure_line(IF k <= Len(ps) THEN ps[k] ELSE ms[k - Len(ps)])]

\* the lines write_to_file writes
write_to_file(fl) == [k \in 1..Len(fl) |-> failure_line(fl[k])]

\* ------------------------------------------------------------------------
\* Playlists and the media they list
\* ------------------------------------------------------------------------
\* extract_media_files: the base directory of a playlist
playlist_basedir(playlist) == PathParent(playlist)

\* extract_media_files fails when the playlist cannot be opened
extract_fails(playlist) ==
    playlist \notin DOMAIN fs_content \/ playlist \in fs_unreadable

extract_every_file(playlist) == << RelA, RelB >>

\* extract_media_files: the media lines of a playlist
extract_files(playlist) == fs_content[playlist]

filter_by_relative_path(basedir, files, copied) ==
    SelectSeq(files, LAMBDA file : file \notin {x[2] : x \in copied})

filter_already_copied_files(basedir, files, copied) ==
    SelectSeq(files, LAMBDA file : << basedir, file >> \notin copied)

all_media_files_per_playlist(pls) ==
    UNION {{<< pls[k], f >> : f \in Range(extract_files(pls[k]))} :
              k \in {j \in 1..Len(pls) : ~extract_fails(pls[j])}}

\* the set of all media of the playlists that can be read (the pre-pass)
all_media_files(pls) ==
    UNION {{<< playlist_basedir(pls[k]), f >> : f \in Range(extract_files(pls[k]))} :
              k \in {j \in 1..Len(pls) : ~extract_fails(pls[j])}}

\* process_playlist: the map from base directory to the files seen there
add_to_map(map, basedir, files) ==
    IF \E k \in 1..Len(map) : map[k][1] = basedir
    THEN [k \in 1..Len(map) |->
             IF map[k][1] = basedir
             THEN << basedir, map[k][2] \cup Range(files) >>
             ELSE map[k]]
    ELSE Append(map, << basedir, Range(files) >>)

\* ------------------------------------------------------------------------
\* Initial states
\* ------------------------------------------------------------------------
\* the functions exercised on their own are not part of a run
DeleteIdle ==
    /\ media = FALSE
    /\ tree = {}
    /\ dirs = {}
    /\ del_trace = << >>

CopyIdle ==
    /\ copy_call = << >>
    /\ copy_out = << >>

ToolsIdle ==
    /\ place_items = << >>
    /\ fs_written = {}
    /\ DeleteIdle
    /\ CopyIdle

UnitsIdle ==
    /\ playlist_content = << >>
    /\ dest_playlist = << >>
    /\ scanned = << >>
    /\ ToolsIdle

InitRun ==
    /\ UnitsIdle
    /\ error_log = IF error_files # NoPath /\ same_file(error_files, retry_file)
                   THEN retry_log ELSE OldLog
    /\ retry_playlists = << >>
    /\ retry_media = << >>
    /\ i_media = 1
    /\ pc = "start"
    /\ i = 1
    /\ total_media_files = 0
    /\ successful_media_files = 0
    /\ successful_playlists = 0
    /\ media_files_map = << >>
    /\ copied_files = {}
    /\ src_basedir = << >>
    /\ files_vec = << >>
    /\ successful_files = << >>
    /\ failures = << >>
    /\ msgs = << >>
    /\ summary = NoSummary
    /\ exit_code = 0
    /\ dest_files = {}
    /\ attempts = [x \in Items |-> 0]
    /\ copies = [x \in Items |-> << >>]
    /\ processed = << >>
    /\ fail_hist = << >>
    /\ retry_hist = << >>
    /\ lyrics_hist = {}
    /\ sidecar_attempts = 0

\* a normal run: one or more playlists on the command line.  The content of
\* a playlist that is not given, or that cannot be opened, is never read:
\* it is left empty.
Init ==
    /\ playlists \in SeqsUpTo(PlaylistFiles, MaxPlaylists) \ {<< >>}
    /\ retry_file = NoPath
    /\ retry_log = << >>
    /\ fs_unreadable \in SUBSET Range(playlists)
    /\ fs_content \in [PlaylistFiles -> SeqsUpTo(RelPaths, MaxEntries)]
    /\ \A p \in PlaylistFiles :
           (p \notin Range(playlists) \/ p \in fs_unreadable) => fs_content[p] = << >>
    /\ keep_going \in BOOLEAN
    /\ lyrics \in BOOLEAN
    /\ error_files \in {NoPath, ErrPath}
    /\ InitRun

\* ------------------------------------------------------------------------
\* The run
\* ------------------------------------------------------------------------
stop_always == TRUE

stop_never == FALSE

\* the choice made at every failure: without --keep-going the error is
\* returned to main and the process exits
stop_on_error == ~keep_going

\* process::exit, or the return of main
Exit(code) ==
    /\ pc' = "done"
    /\ exit_code' = code

run_state == << i, total_media_files, successful_media_files, successful_playlists,
               media_files_map, copied_files, src_basedir, files_vec,
               successful_files, failures, msgs, summary, dest_files >>

error_files_needs_keep_going_always == error_files # NoPath /\ ~keep_going

\* main: --error-files is only accepted with --keep-going, or with --retry
error_files_needs_keep_going ==
    error_files # NoPath /\ ~keep_going /\ retry_file = NoPath

file_create_keeps(content) == content

\* File::create: the content of a file that has just been created
file_create(content) == << >>

\* main, up to the choice between retry mode and normal mode: the checks of
\* the flags, the creation of the failure log, the destination directory
Main ==
    /\ pc = "start"
    /\ UNCHANGED << cli, units, fs_content, fs_unreadable, retry_work, run_state, observers >>
    /\ IF error_files_needs_keep_going
       THEN Exit(255) /\ UNCHANGED << error_log, retry_log >>
       ELSE IF retry_file # NoPath /\ error_files = retry_file
       THEN Exit(255) /\ UNCHANGED << error_log, retry_log >>
       ELSE \E create_ok \in BOOLEAN, dest_ok \in BOOLEAN :
               IF error_files # NoPath /\ ~create_ok
               THEN Exit(2) /\ UNCHANGED << error_log, retry_log >>
               ELSE /\ error_log' = IF error_files # NoPath
                                     THEN file_create(error_log) ELSE error_log
                    /\ retry_log' = IF error_files # NoPath /\ same_file(error_files, retry_file)
                                     THEN file_create(retry_log) ELSE retry_log
                    /\ IF ~dest_ok
                       THEN Exit(255)
                       ELSE /\ pc' = IF retry_file # NoPath
                                      THEN "retry_parse" ELSE "prepass"
                            /\ UNCHANGED exit_code

prepass_records_failures(fl, pls) ==
    fl \o [k \in 1..Len(SelectSeq(pls, extract_fails)) |->
              << "Playlist", SelectSeq(pls, extract_fails)[k] >>]

\* the tracker after the pre-pass: a playlist it cannot read is reported on
\* the error stream and not recorded
prepass_failures(fl, pls) == fl

\* process_normal_operations: the pre-pass that computes the media total
PrePass ==
    /\ pc = "prepass"
    /\ failures' = prepass_failures(failures, playlists)
    /\ UNCHANGED << cli, units, fs, retry_work, error_log, i, successful_media_files,
                    successful_playlists, media_files_map, copied_files,
                    src_basedir, files_vec, successful_files, msgs,
                    summary, dest_files, observers >>
    /\ IF stop_on_error /\ \E k \in 1..Len(playlists) : extract_fails(playlists[k])
       THEN Exit(1) /\ UNCHANGED total_media_files
       ELSE /\ total_media_files' = Cardinality(all_media_files(playlists))
            /\ pc' = "loop"
            /\ UNCHANGED exit_code

\* process_normal_operations: process_playlist on the next playlist, then
\* the files of it that are left to copy
ProcessPlaylist ==
    /\ pc = "loop"
    /\ i <= Len(playlists)
    /\ LET playlist == playlists[i] IN
       /\ UNCHANGED << cli, units, fs, retry_work, error_log, total_media_files,
                       successful_media_files, successful_playlists,
                       copied_files, successful_files, msgs, summary,
                       attempts, copies, retry_hist, lyrics_hist, sidecar_attempts >>
       /\ \E copy_ok \in BOOLEAN :
            IF extract_fails(playlist) \/ ~copy_ok
            THEN /\ failures' = track_playlist(failures, playlist)
                 /\ fail_hist' = Append(fail_hist, << "Playlist", playlist >>)
                 /\ processed' = Append(processed, << playlist, FALSE >>)
                 /\ UNCHANGED << media_files_map, src_basedir, files_vec, dest_files >>
                 /\ IF stop_on_error
                    THEN Exit(1) /\ UNCHANGED i
                    ELSE i' = i + 1 /\ UNCHANGED << pc, exit_code >>
            ELSE /\ processed' = Append(processed, << playlist, TRUE >>)
                 /\ dest_files' = dest_files \cup {<< "playlist", PathFileName(playlist) >>}
                 /\ media_files_map' = add_to_map(media_files_map,
                                                  playlist_basedir(playlist),
                                                  extract_files(playlist))
                 /\ src_basedir' = playlist_basedir(playlist)
                 /\ files_vec' = filter_already_copied_files(playlist_basedir(playlist),
                                                            extract_files(playlist),
                                                            copied_files)
                 /\ pc' = "copy"
                 /\ UNCHANGED << i, failures, fail_hist, exit_code >>

\* the results of copy_single_media_file on the file system
OutcomesWhateverTheFlag ==
    {"mkdir_failed", "copy_failed", "copied", "copied_with_lyrics", "lyrics_failed"}

Outcomes ==
    IF lyrics
    THEN {"mkdir_failed", "copy_failed", "copied", "copied_with_lyrics", "lyrics_failed"}
    ELSE {"mkdir_failed", "copy_failed", "copied"}

track_message_per_playlist(k, n) == << "track", Len(successful_files) + 1, n >>

\* the progress message of a copied track, and of its lyrics
track_message(k, n) == << "track", k, n >>
lyrics_message(k, n) == << "lyrics", k, n >>

\* the counter after a successful copy
count_success(count) == count + 1

track_lyrics_failure_as_media(fl, basedir, file) ==
    Append(fl, << "MediaFile", basedir, file >>)

\* copy_single_media_file: the tracker after a failed copy of a lyrics file
\* under keep-going
track_lyrics_failure(fl, basedir, file) == fl

\* copy_media_files: one turn of its loop, copy_single_media_file on the
\* next file
CopyMediaFile ==
    /\ pc \in {"copy", "retry_playlist_copy", "retry_media_copy"}
    /\ files_vec # << >>
    /\ LET file == Head(files_vec)
           item == << src_basedir, file >>
       IN
       /\ attempts' = [attempts EXCEPT ![item] = @ + 1]
       /\ UNCHANGED << cli, units, fs, retry_work, error_log, i, total_media_files,
                       successful_playlists, media_files_map, copied_files,
                       src_basedir, summary, processed, retry_hist >>
       /\ \E outcome \in Outcomes :
            IF outcome \in {"mkdir_failed", "copy_failed"}
            THEN /\ fail_hist' = Append(fail_hist, << "MediaFile", src_basedir, file >>)
                 /\ UNCHANGED << successful_media_files, successful_files, msgs,
                                 dest_files, copies, lyrics_hist, sidecar_attempts >>
                 /\ IF stop_on_error
                    THEN Exit(1) /\ UNCHANGED << failures, files_vec >>
                    ELSE /\ failures' = track_media_file(failures, src_basedir, file)
                         /\ files_vec' = Tail(files_vec)
                         /\ UNCHANGED << pc, exit_code >>
            ELSE /\ copies' = [copies EXCEPT ![item] = Append(@, i)]
                 /\ dest_files' = dest_files \cup {<< "media", file >>} \cup
                        (IF outcome = "copied_with_lyrics"
                         THEN {<< "lyrics", file >>} ELSE {})
                 /\ lyrics_hist' = IF outcome = "lyrics_failed"
                                    THEN lyrics_hist \cup {item} ELSE lyrics_hist
                 /\ sidecar_attempts' = IF outcome \in {"copied_with_lyrics", "lyrics_failed"}
                                         THEN sidecar_attempts + 1 ELSE sidecar_attempts
                 /\ UNCHANGED fail_hist
                 /\ IF outcome = "lyrics_failed" /\ stop_on_error
                    THEN /\ Exit(1)
                         /\ UNCHANGED << successful_media_files, successful_files,
                                         msgs, files_vec, failures >>
                    ELSE /\ failures' = IF outcome = "lyrics_failed"
                                        THEN track_lyrics_failure(failures, src_basedir, file)
                                        ELSE failures
                         /\ successful_media_files' = count_success(successful_media_files)
                         /\ msgs' = msgs \o
                               << track_message(count_success(successful_media_files),
                                                total_media_files) >> \o
                               (IF outcome \in {"copied_with_lyrics", "lyrics_failed"}
                                THEN << lyrics_message(count_success(successful_media_files),
                                                       total_media_files) >>
                                ELSE << >>)
                         /\ successful_files' = Append(successful_files, file)
                         /\ files_vec' = Tail(files_vec)
                         /\ UNCHANGED << pc, exit_code >>

count_playlist_if_some_copied(count) ==
    IF successful_files = << >> THEN count ELSE count + 1

\* the playlist counter once copy_media_files has returned Ok for a playlist
count_playlist(count) == count + 1

\* process_normal_operations: copy_media_files has returned Ok
FinishPlaylist ==
    /\ pc = "copy"
    /\ files_vec = << >>
    /\ successful_playlists' = count_playlist(successful_playlists)
    /\ copied_files' = copied_files \cup
                           {<< src_basedir, f >> : f \in Range(successful_files)}
    /\ successful_files' = << >>
    /\ i' = i + 1
    /\ pc' = "loop"
    /\ UNCHANGED << cli, units, fs, retry_work, error_log, total_media_files, successful_media_files,
                    media_files_map, src_basedir, files_vec, failures, msgs,
                    summary, exit_code, dest_files, observers >>

\* main: the two lines of the summary
Summary ==
    /\ pc = "loop"
    /\ i > Len(playlists)
    /\ summary' = << successful_playlists, Len(playlists),
                     successful_media_files, total_media_files >>
    /\ pc' = "write_log"
    /\ UNCHANGED << cli, units, fs, retry_work, error_log, i, total_media_files, successful_media_files,
                    successful_playlists, media_files_map, copied_files,
                    src_basedir, files_vec, successful_files, failures, msgs,
                    exit_code, dest_files, observers >>

\* main: the failure log is written, and main returns
WriteLog ==
    /\ pc = "write_log"
    /\ UNCHANGED << cli, units, fs_content, fs_unreadable, retry_work, run_state, observers >>
    /\ IF error_files = NoPath
       THEN Exit(0) /\ UNCHANGED << error_log, retry_log >>
       ELSE \E write_ok \in BOOLEAN :
               IF write_ok
               THEN /\ Exit(0)
                    /\ error_log' = write_to_file(failures)
                    /\ retry_log' = IF same_file(error_files, retry_file)
                                     THEN write_to_file(failures) ELSE retry_log
               ELSE Exit(2) /\ UNCHANGED << error_log, retry_log >>

\* retry_operations: parse_error_file on the file given to --retry
RetryParse ==
    /\ pc = "retry_parse"
    /\ UNCHANGED << cli, units, fs, error_log, i, i_media, successful_media_files,
                    successful_playlists, media_files_map, copied_files,
                    src_basedir, files_vec, successful_files, failures, msgs,
                    summary, dest_files, observers >>
    /\ \E open_ok \in BOOLEAN :
         IF ~open_ok
         THEN Exit(1) /\ UNCHANGED << retry_playlists, retry_media, total_media_files >>
         ELSE /\ retry_playlists' = parsed_playlists(retry_log)
              /\ retry_media' = parsed_media(retry_log)
              /\ total_media_files' = Len(parsed_media(retry_log))
              /\ pc' = "retry"
              /\ UNCHANGED exit_code

\* retry_operations, first loop: retry_playlist on the next playlist of the
\* log, up to its call of copy_media_files
RetryPlaylist ==
    /\ pc = "retry"
    /\ i <= Len(retry_playlists)
    /\ LET playlist == retry_playlists[i] IN
       /\ UNCHANGED << cli, units, fs, retry_work, error_log, total_media_files,
                       successful_media_files, successful_playlists,
                       copied_files, successful_files, msgs, summary,
                       attempts, copies, lyrics_hist, sidecar_attempts >>
       /\ retry_hist' = Append(retry_hist, << "P", playlist >>)
       /\ \E copy_ok \in BOOLEAN :
            IF extract_fails(playlist) \/ ~copy_ok
            THEN /\ failures' = track_playlist(failures, playlist)
                 /\ fail_hist' = Append(fail_hist, << "Playlist", playlist >>)
                 /\ processed' = Append(processed, << playlist, FALSE >>)
                 /\ UNCHANGED << media_files_map, src_basedir, files_vec, dest_files >>
                 /\ IF stop_on_error
                    THEN Exit(1) /\ UNCHANGED i
                    ELSE i' = i + 1 /\ UNCHANGED << pc, exit_code >>
            ELSE /\ processed' = Append(processed, << playlist, TRUE >>)
                 /\ dest_files' = dest_files \cup {<< "playlist", PathFileName(playlist) >>}
                 /\ media_files_map' = add_to_map(media_files_map,
                                                  playlist_basedir(playlist),
                                                  extract_files(playlist))
                 /\ src_basedir' = playlist_basedir(playlist)
                 /\ files_vec' = filter_already_copied_files(playlist_basedir(playlist),
                                                            extract_files(playlist),
                                                            copied_files)
                 /\ pc' = "retry_playlist_copy"
                 /\ UNCHANGED << i, failures, fail_hist, exit_code >>

\* retry_operations, first loop: retry_playlist has returned (true, count),
\* and count is added to the counter
FinishRetryPlaylist ==
    /\ pc = "retry_playlist_copy"
    /\ files_vec = << >>
    /\ successful_playlists' = count_playlist(successful_playlists)
    /\ successful_media_files' = successful_media_files + Len(successful_files)
    /\ copied_files' = copied_files \cup
                           {<< src_basedir, f >> : f \in Range(successful_files)}
    /\ successful_files' = << >>
    /\ i' = i + 1
    /\ pc' = "retry"
    /\ UNCHANGED << cli, units, fs, retry_work, error_log, total_media_files,
                    media_files_map, src_basedir, files_vec, failures, msgs,
                    summary, exit_code, dest_files, observers >>

playlists_done_at_once == TRUE

\* retry_operations: the first loop, over the playlists of the log, is over
playlists_done == i > Len(retry_playlists)

\* retry_operations, second loop: retry_media_file on the next media file
\* of the log, up to its call of copy_media_files
RetryMediaFile ==
    /\ pc = "retry"
    /\ playlists_done
    /\ i_media <= Len(retry_media)
    /\ retry_hist' = Append(retry_hist, << "M" >> \o retry_media[i_media])
    /\ UNCHANGED << cli, units, fs, retry_playlists, retry_media, error_log, i,
                    total_media_files, successful_playlists, media_files_map,
                    copied_files, successful_files, failures, msgs, summary,
                    exit_code, dest_files, attempts, copies, processed, fail_hist,
                    lyrics_hist, sidecar_attempts >>
    /\ IF retry_media[i_media] \in copied_files
       THEN /\ successful_media_files' = successful_media_files + 1
            /\ i_media' = i_media + 1
            /\ UNCHANGED << pc, src_basedir, files_vec >>
       ELSE /\ src_basedir' = retry_media[i_media][1]
            /\ files_vec' = << retry_media[i_media][2] >>
            /\ pc' = "retry_media_copy"
            /\ UNCHANGED << successful_media_files, i_media >>

\* retry_operations, second loop: retry_media_file has returned the count,
\* and the count is added to the counter
FinishRetryMedia ==
    /\ pc = "retry_media_copy"
    /\ files_vec = << >>
    /\ successful_media_files' = successful_media_files + Len(successful_files)
    /\ copied_files' = copied_files \cup
                           {<< src_basedir, f >> : f \in Range(successful_files)}
    /\ successful_files' = << >>
    /\ i_media' = i_media + 1
    /\ pc' = "retry"
    /\ UNCHANGED << cli, units, fs, retry_playlists, retry_media, error_log, i,
                    total_media_files, successful_playlists, media_files_map,
                    src_basedir, files_vec, failures, msgs, summary, exit_code,
                    dest_files, observers >>

\* main: the two lines of the summary of a retry run
RetrySummary ==
    /\ pc = "retry"
    /\ playlists_done
    /\ i_media > Len(retry_media)
    /\ summary' = << successful_playlists, Len(retry_playlists),
                     successful_media_files, total_media_files >>
    /\ pc' = "write_log"
    /\ UNCHANGED << cli, units, fs, retry_work, error_log, i, total_media_files,
                    successful_media_files, successful_playlists, media_files_map,
                    copied_files, src_basedir, files_vec, successful_files,
                    failures, msgs, exit_code, dest_files, observers >>

Next ==
    \/ Main
    \/ PrePass
    \/ ProcessPlaylist
    \/ CopyMediaFile
    \/ FinishPlaylist
    \/ Summary
    \/ WriteLog

Spec == Init /\ [][Next]_vars

\* the tool is one sequential process: it takes its next step as long as
\* there is one
FairSpec == Spec /\ WF_vars(Next)

\* a retry run: a failure log on the command line, and no playlist.  The
\* retry file and the error file may be the same file, under the same
\* spelling of its path or under another one.
RetryInit ==
    /\ playlists = << >>
    /\ retry_file = RetryPath
    /\ retry_log \in SeqsUpTo(LogLines, MaxLogLines)
    /\ fs_unreadable \in SUBSET (Range(parsed_playlists(retry_log)) \cap PlaylistFiles)
    /\ fs_content \in [PlaylistFiles -> SeqsUpTo(RelPaths, MaxEntries)]
    /\ \A p \in PlaylistFiles :
           (p \notin Range(parsed_playlists(retry_log)) \/ p \in fs_unreadable)
               => fs_content[p] = << >>
    /\ keep_going \in BOOLEAN
    /\ lyrics \in BOOLEAN
    /\ error_files \in {NoPath, ErrPath, RetryPath, RetryAlias}
    /\ InitRun

RetryNext ==
    \/ Main
    \/ RetryParse
    \/ RetryPlaylist
    \/ CopyMediaFile
    \/ FinishRetryPlaylist
    \/ RetryMediaFile
    \/ FinishRetryMedia
    \/ RetrySummary
    \/ WriteLog

RetrySpec == RetryInit /\ [][RetryNext]_vars

\* any run of the put tool, normal or retry
PutInit == Init \/ RetryInit

PutNext ==
    \/ Main
    \/ PrePass
    \/ ProcessPlaylist
    \/ CopyMediaFile
    \/ FinishPlaylist
    \/ Summary
    \/ RetryParse
    \/ RetryPlaylist
    \/ FinishRetryPlaylist
    \/ RetryMediaFile
    \/ FinishRetryMedia
    \/ RetrySummary
    \/ WriteLog

PutSpec == PutInit /\ [][PutNext]_vars

\* ------------------------------------------------------------------------
\* Properties
\* ------------------------------------------------------------------------
\* the positions of the command line whose playlist is in the directory of
\* the media item x and lists it
Referencing(x) ==
    {k \in 1..Len(playlists) :
        /\ playlists[k] \notin fs_unreadable
        /\ PathParent(playlists[k]) = x[1]
        /\ \E n \in 1..Len(fs_content[playlists[k]]) : fs_content[playlists[k]][n] = x[2]}

\* the distinct (baseDir, relativePath) pairs of the playlists that can be read
DistinctPairs == {x \in Items : Referencing(x) # {}}

\* the main function has printed the summary
SummaryPrinted == summary # NoSummary

\* C1: during one run the copy of a media item is attempted at most once,
\* whatever the playlists contain.
C1_AtMostOneAttempt == \A x \in Items : attempts[x] <= 1

\* C2: when every copy of a normal run succeeds, the successful-media count
\* of the summary is the number of distinct pairs of all the playlists.
C2_CountIsUnionSize ==
    (SummaryPrinted /\ fail_hist = << >>) => summary[3] = Cardinality(DistinctPairs)

\* C3: a media item referenced by more than one playlist of the same base
\* directory, copied when the first of them is processed, is copied exactly
\* once in the run.
C3_SharedItemCopiedOnce ==
    \A x \in Items :
        (/\ Cardinality({playlists[k] : k \in Referencing(x)}) > 1
         /\ copies[x] # << >>
         /\ \A k \in Referencing(x) : copies[x][1] <= k)
        => Len(copies[x]) = 1

\* C4: the successful-media counter never exceeds the media total of the run.
C4_CounterAtMostTotal == successful_media_files <= total_media_files

\* the "Copy track" progress messages, in the order they were printed
Tracks == SelectSeq(msgs, LAMBDA m : m[1] = "track")

\* the media item x has had a copy attempt that failed
MediaFailed(x) == attempts[x] > Len(copies[x])

\* C5: the k of the successive "(k/N) Copy track" messages are 1, 2, ..., m
\* with no gap and no repeat, across playlists, where m is the
\* successful-media count of the summary.
C5_ProgressNumbering ==
    /\ \A k \in 1..Len(Tracks) : Tracks[k][2] = k
    /\ Len(Tracks) = successful_media_files
    /\ SummaryPrinted => summary[3] = Len(Tracks)

C5_Witness ==
    /\ SummaryPrinted
    /\ Len(processed) = 2
    /\ Len(Tracks) >= 2
    /\ \E x \in Items : MediaFailed(x)
    /\ \E x \in Items : Cardinality(Referencing(x)) > 1 /\ attempts[x] = 1
    /\ \E x, y \in Items : copies[x] = << 1 >> /\ copies[y] = << 2 >>

\* C6: the media total is computed by the pre-pass before anything is
\* copied, it is the number of distinct (baseDir, relativePath) pairs of the
\* readable playlists, and every progress message and the summary show it.
C6_TotalFromPrePass ==
    /\ pc \in {"start", "prepass"} =>
          /\ dest_files = {}
          /\ processed = << >>
          /\ \A x \in Items : attempts[x] = 0
    /\ LET n == Cardinality(DistinctPairs) IN
          /\ pc \in {"loop", "copy", "write_log"} => total_media_files = n
          /\ \A k \in 1..Len(msgs) : msgs[k][3] = n
          /\ SummaryPrinted => summary[4] = n

C6_Witness ==
    /\ SummaryPrinted
    /\ Len(msgs) >= 2
    /\ \E x \in Items : Cardinality(Referencing(x)) > 1
    /\ Cardinality(DistinctPairs) >= 2

\* C7: under keep-going a failed directory creation or media copy appends
\* exactly one MediaFailure(sourceBaseDir, relativePath) to the tracker when
\* there is one, leaves the successful-media counter and CopiedSet as they
\* are, and prints no progress message; CopiedSet only ever holds media that
\* were copied.
C7_MediaFailureRecorded ==
    /\ [][\A x \in Items :
            (keep_going /\ attempts'[x] = attempts[x] + 1 /\ copies'[x] = copies[x]) =>
               /\ failures' = IF error_files # NoPath
                               THEN Append(failures, << "MediaFile", x[1], x[2] >>)
                               ELSE failures
               /\ successful_media_files' = successful_media_files
               /\ copied_files' = copied_files
               /\ successful_files' = successful_files
               /\ msgs' = msgs]_vars
    /\ [](\A x \in copied_files : copies[x] # << >>)

C7_Witness ==
    /\ keep_going
    /\ error_files # NoPath
    /\ pc = "done"
    /\ exit_code = 0
    /\ \E x \in Items : MediaFailed(x) /\ x \notin copied_files
    /\ copied_files # {}

\* the playlists given to process_playlist so far
ProcessedPlaylists == [k \in 1..Len(processed) |-> processed[k][1]]

\* every media line of every playlist that was processed has been attempted
AllEntriesAttempted ==
    \A k \in 1..Len(processed) :
        processed[k][2] =>
            \A n \in 1..Len(fs_content[processed[k][1]]) :
                attempts[<< PathParent(processed[k][1]), fs_content[processed[k][1]][n] >>] >= 1

\* the end of a run that no failure has stopped
RunCompleted ==
    /\ pc = "done"
    /\ SummaryPrinted
    /\ exit_code = 0 \/ (exit_code = 2 /\ error_files # NoPath)
    /\ ProcessedPlaylists = playlists
    /\ AllEntriesAttempted

\* C8: under keep-going no failure of a playlist or of a media item stops a
\* normal run: every playlist of the command line is processed once, in
\* argument order, every media line of a processed playlist is attempted
\* unless the item is already copied, the summary is printed and the
\* process exits 0 (2 when the failure log cannot be written).
C8_KeepGoingCompletes ==
    (keep_going /\ pc = "prepass") ~> RunCompleted

C8_Witness ==
    /\ keep_going
    /\ RunCompleted
    /\ exit_code = 0
    /\ Len(playlists) = 2
    /\ \E k \in 1..Len(processed) : ~processed[k][2]
    /\ \E x \in Items : MediaFailed(x)

\* a media copy or the processing of a playlist has failed
SomeFailure ==
    \/ \E x \in Items : MediaFailed(x)
    \/ \E k \in 1..Len(processed) : ~processed[k][2]

\* C9: without keep-going the first failure of a directory creation, of a
\* media copy or of the processing of a playlist ends the run with exit
\* code 1, and nothing more is copied after it.
C9_FirstFailureStops ==
    /\ []((~keep_going /\ SomeFailure) => (pc = "done" /\ exit_code = 1))
    /\ [][(~keep_going /\ SomeFailure) =>
             UNCHANGED << attempts, copies, processed, dest_files >>]_vars

C9_Witness ==
    /\ ~keep_going
    /\ pc = "done"
    /\ exit_code = 1
    /\ \E x \in Items : MediaFailed(x)
    /\ Len(files_vec) = 2
    /\ i < Len(playlists)

\* the line of the failure log that stands for a failure
ExpectedLine(f) ==
    IF f[1] = "Playlist"
    THEN << "P", " " >> \o f[2]
    ELSE << "M", " " >> \o PathJoin(f[2], f[3])

IsPrefix(s, t) == Len(s) <= Len(t) /\ SubSeq(t, 1, Len(s)) = s

\* the run has ended and has written the failure log
LogWritten == pc = "done" /\ exit_code = 0 /\ error_files # NoPath

\* C10: the failure log written at the end of a run has one line per
\* recorded failure, in the order in which the failures happened, playlist
\* and media records interleaved, each line "P " + playlist path or "M " +
\* sourceBaseDir joined with relativePath; the tracker is only appended to.
C10_LogInFailureOrder ==
    /\ [](LogWritten =>
            error_log = [k \in 1..Len(fail_hist) |-> ExpectedLine(fail_hist[k])])
    /\ [][IsPrefix(failures, failures')]_vars

C10_Witness ==
    /\ LogWritten
    /\ Len(error_log) >= 2
    /\ error_log[1][1] = "M"
    /\ error_log[2][1] = "P"

\* ------------------------------------------------------------------------
\* The failure log written by one run and parsed by the next
\* ------------------------------------------------------------------------
\* media lines a playlist can hold besides the ordinary ones: a name that
\* ends with a blank, and the parent directory
RelBlank == << "a", " " >>
RelDotDot == << ".." >>

\* the failures a keep-going run can record on this file system
FailureRecords ==
    {<< "Playlist", p >> : p \in {P1, P3}}
    \cup {<< "MediaFile", PathParent(p), f >> :
             p \in {P1, P3}, f \in RelPaths \cup {RelBlank, RelDotDot}}

\* the put tool at rest: the state of its run when another function is
\* exercised
PutIdle ==
    /\ playlists = << >>
    /\ keep_going = TRUE
    /\ lyrics = FALSE
    /\ error_files = ErrPath
    /\ retry_file = NoPath
    /\ fs_content = [p \in PlaylistFiles |-> << >>]
    /\ fs_unreadable = {}
    /\ retry_log = << >>
    /\ error_log = << >>
    /\ retry_playlists = << >>
    /\ retry_media = << >>
    /\ i_media = 1
    /\ i = 1
    /\ total_media_files = 0
    /\ successful_media_files = 0
    /\ successful_playlists = 0
    /\ media_files_map = << >>
    /\ copied_files = {}
    /\ src_basedir = << >>
    /\ files_vec = << >>
    /\ successful_files = << >>
    /\ msgs = << >>
    /\ summary = NoSummary
    /\ exit_code = 0
    /\ dest_files = {}
    /\ attempts = [x \in Items |-> 0]
    /\ copies = [x \in Items |-> << >>]
    /\ processed = << >>
    /\ fail_hist = << >>
    /\ retry_hist = << >>
    /\ lyrics_hist = {}
    /\ sidecar_attempts = 0
    /\ failures = << >>

RoundTripInit ==
    /\ UnitsIdle
    /\ playlists = << >>
    /\ keep_going = TRUE
    /\ lyrics = FALSE
    /\ error_files = ErrPath
    /\ retry_file = NoPath
    /\ fs_content = [p \in PlaylistFiles |-> << >>]
    /\ fs_unreadable = {}
    /\ retry_log = << >>
    /\ error_log = << >>
    /\ retry_playlists = << >>
    /\ retry_media = << >>
    /\ i_media = 1
    /\ pc = "write_to_file"
    /\ i = 1
    /\ total_media_files = 0
    /\ successful_media_files = 0
    /\ successful_playlists = 0
    /\ media_files_map = << >>
    /\ copied_files = {}
    /\ src_basedir = << >>
    /\ files_vec = << >>
    /\ successful_files = << >>
    /\ failures \in SeqsUpTo(FailureRecords, MaxFailures)
    /\ msgs = << >>
    /\ summary = NoSummary
    /\ exit_code = 0
    /\ dest_files = {}
    /\ attempts = [x \in Items |-> 0]
    /\ copies = [x \in Items |-> << >>]
    /\ processed = << >>
    /\ fail_hist = << >>
    /\ retry_hist = << >>
    /\ lyrics_hist = {}
    /\ sidecar_attempts = 0

\* ErrorTracker::write_to_file on the failures of the tracker
WriteToFile ==
    /\ pc = "write_to_file"
    /\ error_log' = write_to_file(failures)
    /\ pc' = "parse_error_file"
    /\ UNCHANGED << cli, units, fs, retry_work, run_state, exit_code, observers >>

\* parse_error_file on the file that was written
ParseErrorFile ==
    /\ pc = "parse_error_file"
    /\ retry_log' = error_log
    /\ retry_playlists' = parsed_playlists(error_log)
    /\ retry_media' = parsed_media(error_log)
    /\ pc' = "parsed"
    /\ UNCHANGED << cli, units, fs_content, fs_unreadable, i_media, error_log, run_state,
                    exit_code, observers >>

RoundTripNext ==
    \/ WriteToFile
    \/ ParseErrorFile

RoundTripSpec == RoundTripInit /\ [][RoundTripNext]_vars

\* the (kind, full path) pair of a failure record
KindAndPath(f) ==
    IF f[1] = "Playlist" THEN << "Playlist", f[2] >>
    ELSE << "MediaFile", PathJoin(f[2], f[3]) >>

\* the (kind, full path) pairs parse_error_file has returned, in the order
\* the retry consumes them
ParsedPairs ==
    [k \in 1..Len(retry_playlists) |-> << "Playlist", retry_playlists[k] >>]
    \o [k \in 1..Len(retry_media) |->
           << "MediaFile", PathJoin(retry_media[k][1], retry_media[k][2]) >>]

\* C11: parsing the log that serializes a failure sequence F gives back the
\* (kind, full path) pairs of F, in the order of F.
C11_RoundTrip ==
    pc = "parsed" => ParsedPairs = [k \in 1..Len(failures) |-> KindAndPath(failures[k])]

\* the lines of a log that begin with the prefix of a kind of record
LinesOf(log, tag) == SelectSeq(log, LAMBDA l : StartsWith(l, tag))

\* the (prefix, full path) of the entries a retry run has taken up so far
RetriedPaths ==
    [k \in 1..Len(retry_hist) |->
        IF retry_hist[k][1] = "P" THEN << "P", retry_hist[k][2] >>
        ELSE << "M", PathJoin(retry_hist[k][2], retry_hist[k][3]) >>]

\* the entries of the log given to --retry in the order of the claim: the
\* "P" lines in log order, then the "M" lines in log order
RetryOrder ==
    [k \in 1..Len(LinesOf(retry_log, "P")) |->
        << "P", AfterPrefix(LinesOf(retry_log, "P")[k]) >>]
    \o [k \in 1..Len(LinesOf(retry_log, "M")) |->
        << "M", AfterPrefix(LinesOf(retry_log, "M")[k]) >>]

\* C12: a retry run takes up the "P" entries of the log in log order, each
\* with its playlist copy and its media copies, before the first "M" entry,
\* then the "M" entries in log order, whatever the interleaving of the
\* lines; a run that no failure stops takes up every entry, and a line with
\* another prefix causes no operation.
C12_PlaylistsBeforeMedia ==
    /\ [](IsPrefix(RetriedPaths, RetryOrder))
    /\ []((SummaryPrinted /\ retry_file # NoPath) => RetriedPaths = RetryOrder)
    /\ [][(retry_hist' # retry_hist /\ Last(retry_hist')[1] = "M") =>
             /\ pc = "retry"
             /\ files_vec = << >>
             /\ Len(processed) = Len(LinesOf(retry_log, "P"))]_vars
    /\ [][(retry_hist' = retry_hist /\ retry_file # NoPath) =>
             (processed' = processed /\
              \A x \in Items : attempts'[x] > attempts[x] => pc # "retry")]_vars

C12_Witness ==
    /\ SummaryPrinted
    /\ Len(retry_log) = 2
    /\ StartsWith(retry_log[1], "M")
    /\ StartsWith(retry_log[2], "P")
    /\ Len(retry_hist) = 2
    /\ retry_hist[1][1] = "P"
    /\ retry_hist[2][1] = "M"
    /\ \E x \in Items : Len(copies[x]) >= 1

\* the file of this full path has been copied by the retry of a playlist
CopiedByPlaylist(path) ==
    \E x \in Items :
        /\ PathJoin(x[1], x[2]) = path
        /\ \E n \in 1..Len(copies[x]) : copies[x][n] <= Len(retry_playlists)

\* C13: in a retry run, a bare media entry whose file a playlist retried
\* earlier in the run has already copied is not given to the copy again: it
\* is skipped and counted as one success.
C13_CopiedEntrySkipped ==
    [][(/\ retry_hist' # retry_hist
        /\ Last(retry_hist')[1] = "M"
        /\ CopiedByPlaylist(PathJoin(Last(retry_hist')[2], Last(retry_hist')[3])))
       => (/\ pc' = "retry"
           /\ files_vec' = files_vec
           /\ successful_media_files' = successful_media_files + 1)]_vars

\* a retry run under keep-going has ended and has written the new log
RetryLogWritten == LogWritten /\ keep_going /\ retry_file # NoPath

\* the media entries a retry run has taken up, as (src_basedir, file) pairs
RetriedMedia ==
    {<< retry_hist[k][2], retry_hist[k][3] >> :
        k \in {n \in 1..Len(retry_hist) : retry_hist[n][1] = "M"}}

\* no copy of the file of this full path has failed in the run
NeverFailed(path) ==
    \A x \in Items : PathJoin(x[1], x[2]) = path => ~MediaFailed(x)

\* C14: the failure log written by a keep-going retry run holds the entries
\* that failed again in this run and nothing else: every line of it is the
\* line of a playlist or of a media file that failed in this run, a playlist
\* entry has its "P" line there exactly when its retry failed, a media entry
\* whose retry failed has its "M" line there, which parses back to the same
\* entry, and a media entry none of whose copies failed has no line there.
C14_NewLogHoldsRetryFailures ==
    RetryLogWritten =>
        /\ \A n \in 1..Len(error_log) :
              \/ \E k \in 1..Len(processed) :
                    /\ ~processed[k][2]
                    /\ error_log[n] = << "P", " " >> \o processed[k][1]
              \/ \E x \in Items :
                    /\ MediaFailed(x)
                    /\ error_log[n] = << "M", " " >> \o PathJoin(x[1], x[2])
        /\ \A k \in 1..Len(processed) :
              (<< "P", " " >> \o processed[k][1] \in Range(error_log))
                 <=> (\E n \in 1..Len(processed) :
                         processed[n] = << processed[k][1], FALSE >>)
        /\ \A m \in RetriedMedia :
              LET line == << "M", " " >> \o PathJoin(m[1], m[2]) IN
              /\ MediaFailed(m) =>
                    (line \in Range(error_log) /\ parsed_media(<< line >>) = << m >>)
              /\ NeverFailed(PathJoin(m[1], m[2])) => line \notin Range(error_log)

C14_Witness ==
    /\ RetryLogWritten
    /\ Len(retry_hist) = 2
    /\ Len(error_log) = 1
    /\ \E m \in RetriedMedia : MediaFailed(m)
    /\ \E m \in RetriedMedia : NeverFailed(PathJoin(m[1], m[2])) /\ copies[m] # << >>

\* --retry and --error-files name the same file
SameFileGiven ==
    retry_file # NoPath /\ error_files # NoPath /\ same_file(retry_file, error_files)

\* C15: when --retry and --error-files name the same file the process exits
\* with code 255 and has touched no file: the log is neither created nor
\* truncated, nothing is read from it and nothing is copied.
C15_SameFileRejected ==
    /\ []((SameFileGiven /\ pc # "start") => (pc = "done" /\ exit_code = 255))
    /\ [][SameFileGiven =>
             UNCHANGED << error_log, retry_log, retry_playlists, retry_media,
                          dest_files, processed, attempts >>]_vars

\* nothing has been created, read or copied
NothingTouched ==
    /\ dest_files = {}
    /\ processed = << >>
    /\ retry_hist = << >>
    /\ \A x \in Items : attempts[x] = 0

\* C16: an error-log path without keep-going and without retry mode is
\* rejected with exit code 255 before any file is created or copied; in
\* retry mode the same flags pass this check: the log is created, and the
\* run can only exit 255 for its destination directory.
C16_ErrorFilesNeedsKeepGoing ==
    /\ []((error_files # NoPath /\ ~keep_going /\ retry_file = NoPath) =>
            /\ pc # "start" => (pc = "done" /\ exit_code = 255)
            /\ error_log = OldLog
            /\ NothingTouched)
    /\ []((error_files # NoPath /\ ~keep_going /\ retry_file # NoPath
           /\ error_files # retry_file /\ pc = "done" /\ exit_code = 255) =>
            error_log = << >>)

C16_Witness ==
    /\ error_files # NoPath
    /\ ~keep_going
    /\ retry_file # NoPath
    /\ pc = "done"
    /\ exit_code = 0
    /\ SummaryPrinted
    /\ dest_files # {}

C16_RejectedWitness ==
    /\ error_files # NoPath
    /\ ~keep_going
    /\ retry_file = NoPath
    /\ pc = "done"
    /\ exit_code = 255
    /\ playlists # << >>

\* an error-log path is given and the flags pass the checks of main
ErrorLogAccepted ==
    /\ error_files # NoPath
    /\ ~error_files_needs_keep_going
    /\ ~(retry_file # NoPath /\ error_files = retry_file)

\* C17: with an error-log path and valid flags, the log file is created
\* (truncated) before any playlist or media file is read or copied; when it
\* cannot be created the process exits with code 2 and nothing has been
\* copied; the failure records are written to it only after all processing,
\* so the file is empty during the run and after a run without failures.
C17_LogCreatedFirstWrittenLast ==
    /\ [](ErrorLogAccepted =>
            /\ pc = "start" => NothingTouched
            /\ pc \notin {"start", "done"} => error_log = << >>
            /\ (pc = "done" /\ exit_code = 2 /\ ~SummaryPrinted) => NothingTouched
            /\ (pc = "done" /\ fail_hist = << >> /\ exit_code # 2) => error_log = << >>)
    /\ [][(ErrorLogAccepted /\ error_log' # error_log) =>
             \/ pc = "start" /\ error_log' = << >> /\ NothingTouched
             \/ pc = "write_log" /\ pc' = "done" /\ error_log' = write_to_file(failures)]_vars

C17_Witness ==
    /\ ErrorLogAccepted
    /\ pc = "done"
    /\ exit_code = 0
    /\ fail_hist = << >>
    /\ error_log = << >>
    /\ dest_files # {}
    /\ \E x \in Items : copies[x] # << >>

C17_CannotCreateWitness ==
    /\ ErrorLogAccepted
    /\ pc = "done"
    /\ exit_code = 2
    /\ ~SummaryPrinted
    /\ error_log = OldLog

\* the number of playlists whose processing has succeeded
ProcessedOk == Len(SelectSeq(processed, LAMBDA r : r[2]))

\* C18: under keep-going a playlist that cannot be processed is recorded as
\* one PlaylistFailure (when there is a tracker), is not counted as a
\* successful playlist while the playlist total counts it, and none of its
\* media lines is attempted or recorded as a MediaFailure: the run goes on
\* with the next entry.
C18_FailedPlaylistSkipped ==
    /\ [][(keep_going /\ processed' # processed /\ ~Last(processed')[2]) =>
             /\ failures' = IF error_files # NoPath
                            THEN Append(failures, << "Playlist", Last(processed')[1] >>)
                            ELSE failures
             /\ successful_playlists' = successful_playlists
             /\ successful_media_files' = successful_media_files
             /\ attempts' = attempts
             /\ files_vec' = << >>
             /\ dest_files' = dest_files
             /\ i' = i + 1
             /\ pc' = pc]_vars
    /\ []((keep_going /\ SummaryPrinted) =>
             /\ summary[1] = ProcessedOk
             /\ summary[2] = Len(processed))

C18_Witness ==
    /\ keep_going
    /\ SummaryPrinted
    /\ pc = "done"
    /\ Len(processed) = 2
    /\ ~processed[1][2]
    /\ processed[2][2]
    /\ processed[1][1] # processed[2][1]
    /\ fs_content[processed[1][1]] # << >>
    /\ summary[1] = 1
    /\ summary[2] = 2
    /\ Len(failures) = 1

\* the relative paths listed by the readable playlists of a directory
ListedUnder(dir) ==
    UNION {Range(fs_content[playlists[k]]) :
              k \in {n \in 1..Len(playlists) :
                        playlists[n] \notin fs_unreadable /\ PathParent(playlists[n]) = dir}}

\* no playlist lists the same path twice
NoRepeatedLine ==
    \A p \in PlaylistFiles : Cardinality(Range(fs_content[p])) = Len(fs_content[p])

PushedAsSuccessful(x) ==
    /\ pc \in {"copy", "retry_playlist_copy", "retry_media_copy"}
    /\ x[1] = src_basedir
    /\ x[2] \in Range(successful_files)

\* C20: a failed copy of a lyrics file is never recorded in the error
\* tracker; under keep-going its media item is still counted as a
\* successful copy and goes into CopiedSet when the call returns; without
\* keep-going the failure ends the run with exit code 1.
C20_LyricsFailureNotRecorded ==
    /\ [][lyrics_hist' # lyrics_hist =>
             /\ failures' = failures
             /\ IF keep_going
                THEN /\ successful_media_files' = successful_media_files + 1
                     /\ successful_files' = Append(successful_files, Head(files_vec))
                     /\ pc' = pc
                ELSE /\ pc' = "done"
                     /\ exit_code' = 1
                     /\ successful_media_files' = successful_media_files]_vars
    /\ [](keep_going =>
            \A x \in lyrics_hist : x \in copied_files \/ PushedAsSuccessful(x))
    /\ [](Len(failures) <= Len(fail_hist))

C20_Witness ==
    /\ keep_going
    /\ error_files # NoPath
    /\ pc = "done"
    /\ exit_code = 0
    /\ lyrics_hist # {}
    /\ lyrics_hist \subseteq copied_files
    /\ failures = << >>
    /\ summary[3] = 1
    /\ error_log = << >>

C20_AbortWitness ==
    /\ ~keep_going
    /\ lyrics_hist # {}
    /\ pc = "done"
    /\ exit_code = 1

\* the lyrics files at the destination, and the "Copy lyrics" messages
LyricsAtDest == {f \in dest_files : f[1] = "lyrics"}
LyricsMessages == SelectSeq(msgs, LAMBDA m : m[1] = "lyrics")

\* a step in which the copy of a media item has succeeded
MediaCopied == \E x \in Items : Len(copies'[x]) = Len(copies[x]) + 1

\* C21: a lyrics file is copied only in lyrics mode, only in the step in
\* which the copy of its media file has succeeded, and only when it exists;
\* when it does not exist the media file is copied without any error,
\* failure record or lyrics message; a media item whose copy failed gets no
\* lyrics file; without lyrics mode no lyrics file is ever copied.
C21_SidecarAfterMediaCopy ==
    /\ [][(sidecar_attempts' # sidecar_attempts \/ LyricsAtDest' # LyricsAtDest
           \/ LyricsMessages' # LyricsMessages) =>
             (lyrics /\ MediaCopied /\ sidecar_attempts' = sidecar_attempts + 1)]_vars
    /\ [][(MediaCopied /\ sidecar_attempts' = sidecar_attempts) =>
             /\ failures' = failures
             /\ fail_hist' = fail_hist
             /\ pc' = pc
             /\ msgs' = Append(msgs, Last(msgs'))
             /\ Last(msgs')[1] = "track"
             /\ LyricsAtDest' = LyricsAtDest]_vars
    /\ [](~lyrics => (sidecar_attempts = 0 /\ LyricsAtDest = {} /\ LyricsMessages = << >>))
    /\ [](\A f \in LyricsAtDest : \E x \in Items : x[2] = f[2] /\ copies[x] # << >>)

C21_Witness ==
    /\ lyrics
    /\ SummaryPrinted
    /\ sidecar_attempts = 1
    /\ Cardinality(LyricsAtDest) = 1
    /\ Len(Tracks) = 2
    /\ Len(LyricsMessages) = 1
    /\ \E x \in Items : MediaFailed(x) /\ copies[x] = << >>
    /\ fail_hist # << >>

\* ------------------------------------------------------------------------
\* The text of a playlist: copy_playlist_file and read_playlist
\* ------------------------------------------------------------------------
\* the bytes a playlist file is made of: the comment sign, the backslash, a
\* letter, the two line terminators and the byte order mark
Bytes == {"#", "\\", "a", "\n", "\r", "BOM"}

\* the position of the first line feed of s, 0 when there is none
FirstLineFeed(s) ==
    LET idx == {k \in 1..Len(s) : s[k] = "\n"}
    IN IF idx = {} THEN 0 ELSE CHOOSE k \in idx : \A n \in idx : k <= n

\* s without one trailing carriage return
StripCarriageReturn(s) ==
    IF s # << >> /\ Last(s) = "\r" THEN SubSeq(s, 1, Len(s) - 1) ELSE s

\* str::lines and BufRead::lines: the lines of a text, without their
\* terminator (a line feed, or a carriage return and a line feed); the last
\* line needs no terminator
RECURSIVE lines(_)
lines(s) ==
    IF s = << >> THEN << >>
    ELSE LET nl == FirstLineFeed(s) IN
         IF nl = 0 THEN << s >>
         ELSE << StripCarriageReturn(SubSeq(s, 1, nl - 1)) >>
              \o lines(SubSeq(s, nl + 1, Len(s)))

\* str::replace('\\', "/")
replace_backslash(line) == [k \in 1..Len(line) |-> IF line[k] = "\\" THEN "/" ELSE line[k]]

\* Vec::join("\n")
RECURSIVE join(_)
join(ls) ==
    IF ls = << >> THEN << >>
    ELSE IF Len(ls) = 1 THEN ls[1]
    ELSE ls[1] \o << "\n" >> \o join(Tail(ls))

\* copy_playlist_file: a line that is no comment and holds a backslash
to_rewrite(line) ==
    ~(line # << >> /\ Head(line) = "#") /\ (\E k \in 1..Len(line) : line[k] = "\\")

has_backslashes(content) ==
    \E k \in 1..Len(lines(content)) : to_rewrite(lines(content)[k])

modified_content(content) ==
    join([k \in 1..Len(lines(content)) |->
             IF to_rewrite(lines(content)[k])
             THEN replace_backslash(lines(content)[k])
             ELSE lines(content)[k]])

\* copy_playlist_file: the bytes of the playlist at the destination
written_playlist(content) ==
    IF has_backslashes(content) THEN modified_content(content) ELSE content

\* read_playlist: the three steps of its pipeline
process_line(line) ==
    StripCarriageReturn(IF line # << >> /\ Head(line) = "BOM" THEN Tail(line) ELSE line)

filter_line_comments_only(line) == ~(line # << >> /\ Head(line) = "#")

filter_line(line) == ~((line # << >> /\ Head(line) = "#") \/ line = << >>)

read_playlist(content) ==
    LET processed_lines == [k \in 1..Len(lines(content)) |-> process_line(lines(content)[k])]
        kept == SelectSeq(processed_lines, filter_line)
    IN [k \in 1..Len(kept) |-> replace_backslash(kept[k])]

extract_without_replace(content) ==
    SelectSeq([k \in 1..Len(lines(content)) |-> lines(content)[k]],
              LAMBDA line : line # << >> /\ Head(line) # "#")

\* extract_media_files of the put tool: the media lines of the bytes of a
\* playlist (byte order mark, carriage return, comments and empty lines,
\* backslashes)
extract_media_files(content) ==
    LET without_bom == [k \in 1..Len(lines(content)) |->
                           IF lines(content)[k] # << >> /\ Head(lines(content)[k]) = "BOM"
                           THEN Tail(lines(content)[k])
                           ELSE lines(content)[k]]
        without_cr == [k \in 1..Len(without_bom) |->
                          IF without_bom[k] # << >> /\ Last(without_bom[k]) = "\r"
                          THEN SubSeq(without_bom[k], 1, Len(without_bom[k]) - 1)
                          ELSE without_bom[k]]
        media_lines == SelectSeq(without_cr,
                                 LAMBDA line : ~((line # << >> /\ Head(line) = "#")
                                                 \/ line = << >>))
    IN [k \in 1..Len(media_lines) |->
           [n \in 1..Len(media_lines[k]) |->
               IF media_lines[k][n] = "\\" THEN "/" ELSE media_lines[k][n]]]

\* extract_media_files of the delete tool, the same steps in its own file
delete_extract_media_files(content) ==
    LET without_bom == [k \in 1..Len(lines(content)) |->
                           IF lines(content)[k] # << >> /\ Head(lines(content)[k]) = "BOM"
                           THEN Tail(lines(content)[k])
                           ELSE lines(content)[k]]
        without_cr == [k \in 1..Len(without_bom) |->
                          IF without_bom[k] # << >> /\ Last(without_bom[k]) = "\r"
                          THEN SubSeq(without_bom[k], 1, Len(without_bom[k]) - 1)
                          ELSE without_bom[k]]
        media_lines == SelectSeq(without_cr,
                                 LAMBDA line : ~((line # << >> /\ Head(line) = "#")
                                                 \/ line = << >>))
    IN [k \in 1..Len(media_lines) |->
           [n \in 1..Len(media_lines[k]) |->
               IF media_lines[k][n] = "\\" THEN "/" ELSE media_lines[k][n]]]

TextInit ==
    /\ PutIdle
    /\ pc = "text"
    /\ playlist_content \in SeqsUpTo(Bytes, MaxBytes)
    /\ dest_playlist = << >>
    /\ scanned = << >>
    /\ ToolsIdle

\* copy_playlist_file on the playlist
CopyPlaylistFile ==
    /\ pc = "text"
    /\ dest_playlist' = written_playlist(playlist_content)
    /\ pc' = "copied"
    /\ UNCHANGED << cli, fs, retry_work, run_state, error_log, exit_code, observers,
                    playlist_content, scanned, tools >>

\* read_playlist on the playlist, collected
ReadPlaylist ==
    /\ pc = "text"
    /\ scanned' = read_playlist(playlist_content)
    /\ pc' = "scanned"
    /\ UNCHANGED << cli, fs, retry_work, run_state, error_log, exit_code, observers,
                    playlist_content, dest_playlist, tools >>

\* extract_media_files of the put tool on the playlist
ExtractMediaFiles ==
    /\ pc = "text"
    /\ scanned' = extract_media_files(playlist_content)
    /\ pc' = "extracted"
    /\ UNCHANGED << cli, fs, retry_work, run_state, error_log, exit_code, observers,
                    playlist_content, dest_playlist, tools >>

\* extract_media_files of the delete tool on the playlist
DeleteExtractMediaFiles ==
    /\ pc = "text"
    /\ scanned' = delete_extract_media_files(playlist_content)
    /\ pc' = "delete_extracted"
    /\ UNCHANGED << cli, fs, retry_work, run_state, error_log, exit_code, observers,
                    playlist_content, dest_playlist, tools >>

TextNext ==
    \/ CopyPlaylistFile
    \/ ReadPlaylist
    \/ ExtractMediaFiles
    \/ DeleteExtractMediaFiles

TextSpec == TextInit /\ [][TextNext]_vars

\* the text holds this byte
Holds(text, byte) == \E k \in 1..Len(text) : text[k] = byte

\* the lines of the playlist that are no comment and hold a backslash
SomeLineToRewrite ==
    \E k \in 1..Len(lines(playlist_content)) :
        LET line == lines(playlist_content)[k] IN
        Holds(line, "\\") /\ (line = << >> \/ Head(line) # "#")

\* C22: when some line of a playlist that is no comment holds a backslash,
\* the playlist written to the destination is the whole text of the
\* playlist with every backslash turned into a forward slash, so that no
\* backslash is left in it; otherwise the written playlist is the source,
\* byte for byte.
C22_PlaylistRewritten ==
    pc = "copied" =>
        IF SomeLineToRewrite
        THEN /\ dest_playlist = replace_backslash(playlist_content)
             /\ ~Holds(dest_playlist, "\\")
        ELSE dest_playlist = playlist_content

\* a line without a leading byte order mark and, then, without a trailing
\* carriage return
Stripped(line) ==
    LET t == IF Len(line) >= 1 /\ line[1] = "BOM" THEN SubSeq(line, 2, Len(line)) ELSE line
    IN IF Len(t) >= 1 /\ t[Len(t)] = "\r" THEN SubSeq(t, 1, Len(t) - 1) ELSE t

\* the positions of the lines of the playlist that are kept
KeptLines ==
    {k \in 1..Len(lines(playlist_content)) :
        LET t == Stripped(lines(playlist_content)[k]) IN t # << >> /\ t[1] # "#"}

\* the n-th kept position
NthKept(n) == CHOOSE k \in KeptLines : Cardinality({m \in KeptLines : m <= k}) = n

\* C23: the parser returns, in the order of the lines, exactly the lines
\* that, once a leading byte order mark and then a trailing carriage return
\* are stripped, are neither empty nor comments, each with its backslashes
\* turned into forward slashes: no returned path is empty, starts with "#"
\* or holds a backslash.
C23_ScannedLines ==
    pc = "scanned" =>
        /\ Len(scanned) = Cardinality(KeptLines)
        /\ \A n \in 1..Len(scanned) :
              /\ Len(scanned[n]) = Len(Stripped(lines(playlist_content)[NthKept(n)]))
              /\ \A k \in 1..Len(scanned[n]) :
                    scanned[n][k] =
                        IF Stripped(lines(playlist_content)[NthKept(n)])[k] = "\\" THEN "/"
                        ELSE Stripped(lines(playlist_content)[NthKept(n)])[k]
              /\ scanned[n] # << >>
              /\ scanned[n][1] # "#"
              /\ ~Holds(scanned[n], "\\")

C23_Witness ==
    /\ pc = "scanned"
    /\ playlist_content = << "BOM", "\\", "\r", "\n" >>
    /\ scanned = << << "/" >> >>

C23_SkipWitness ==
    /\ pc = "scanned"
    /\ playlist_content = << "#", "\n", "\n", "a" >>
    /\ scanned = << << "a" >> >>

\* a step of a retry run that skips a media entry as already copied
EntrySkipped ==
    /\ retry_hist' # retry_hist
    /\ Last(retry_hist')[1] = "M"
    /\ pc' = "retry"

\* C30: in a retry run every successful copy and every media entry skipped
\* as already copied adds exactly one to the successful-media count, nothing
\* else changes it, and the summary prints it: the count of the summary is
\* the number of copies made plus the number of entries skipped.
C30_RetryCountsOnce ==
    /\ [][(retry_file # NoPath /\ pc' # "done") =>
             successful_media_files' =
                 successful_media_files + (IF MediaCopied \/ EntrySkipped THEN 1 ELSE 0)]_vars
    /\ []((retry_file # NoPath /\ SummaryPrinted) =>
             /\ summary[3] = successful_media_files
             /\ retry_media = << >> => summary[3] = Len(Tracks))

\* C26: under keep-going a playlist whose own file was copied adds one to
\* the count of successful playlists when its media files are done, whatever
\* the number of them that failed to copy: the count of the summary is the
\* number of playlists whose file was processed.
C26_PlaylistCountedDespiteMediaFailures ==
    /\ [][(keep_going /\ pc \in {"copy", "retry_playlist_copy"}
                      /\ pc' \in {"loop", "retry"}) =>
             successful_playlists' = successful_playlists + 1]_vars
    /\ [](keep_going => successful_playlists <= ProcessedOk)
    /\ []((keep_going /\ pc \in {"loop", "retry", "write_log", "done"}) =>
             successful_playlists = ProcessedOk)

C26_Witness ==
    /\ keep_going
    /\ SummaryPrinted
    /\ \E k \in 1..Len(processed) :
          /\ processed[k][2]
          /\ Len(fs_content[processed[k][1]]) = MaxEntries
    /\ \A x \in Items : copies[x] = << >>
    /\ \E x \in Items : attempts[x] > 0
    /\ summary[1] = ProcessedOk
    /\ summary[1] > 0
    /\ summary[3] = 0

\* the relative paths a full path can be the join of a directory with
Suffixes(p) == {SubSeq(p, k + 1, Len(p)) : k \in {n \in 1..Len(p) : p[n] = "/"}}

\* the media files the log given to --retry names: the paths of its "M"
\* lines, and the lines of the playlists of its "P" lines
ListedMedia ==
    UNION {Suffixes(AfterPrefix(l)) : l \in Range(LinesOf(retry_log, "M"))}
    \cup UNION {Range(fs_content[AfterPrefix(l)]) : l \in Range(LinesOf(retry_log, "P"))}

\* the destination files derived from the entries of the log
DerivedFromLog ==
    {<< "playlist", PathFileName(AfterPrefix(l)) >> : l \in Range(LinesOf(retry_log, "P"))}
    \cup {<< "media", f >> : f \in ListedMedia}
    \cup (IF lyrics THEN {<< "lyrics", f >> : f \in ListedMedia} ELSE {})

\* C24: a retry run creates or overwrites at the destination only the files
\* derived from the entries of the log it replays: the playlists of its "P"
\* lines with the media they list, the media of its "M" lines, and their
\* lyrics files in lyrics mode; no other destination file is written.
C24_RetryWritesOnlyLoggedFiles ==
    retry_file # NoPath => dest_files \subseteq DerivedFromLog

C24_Witness ==
    /\ retry_file # NoPath
    /\ ~same_file(error_files, retry_file)
    /\ SummaryPrinted
    /\ pc = "done"
    /\ Len(LinesOf(retry_log, "P")) = 1
    /\ Len(LinesOf(retry_log, "M")) = 1
    /\ \E f \in dest_files : f[1] = "playlist"
    /\ \A x \in Items : Len(copies[x]) <= 1
    /\ \E x \in Items : copies[x] = << 2 >>
    /\ \E f \in RelPaths :
          /\ << "media", f >> \in dest_files
          /\ << "lyrics", f >> \in dest_files
    /\ \E f \in RelPaths : << "media", f >> \notin dest_files
    /\ \E p \in PlaylistFiles : << "playlist", PathFileName(p) >> \notin dest_files

\* ------------------------------------------------------------------------
\* The destination paths of copy_playlist_file and copy_single_media_file
\* ------------------------------------------------------------------------
\* the destination root, as main gives it: canonical and absolute
DestRoot == << "/", "mnt", "dev" >>

\* the directories of the playlists, and the playlists
SourceDirs == {<< "/", "lib" >>, << "/", "mnt", "lib" >>}
SourcePlaylists == {PathJoin(d, << "p" >>) : d \in SourceDirs}

\* the media lines of the playlists: relative paths, with and without ".."
RelUp == << "..", "/", "a" >>
RelUpLib == << "..", "/", "lib", "/", "a" >>
RelDownUp == << "d", "/", "..", "/", "a" >>
ListedPaths == {RelA, RelB, RelUp, RelUpLib, RelDownUp}

\* the calls of the two functions: a playlist, or a media line of a
\* playlist with the directory of the playlist
PlaceCalls ==
    {<< "playlist", p, << >> >> : p \in SourcePlaylists}
    \cup {<< "media", d, f >> : d \in SourceDirs, f \in ListedPaths}

\* copy_playlist_file: the path the playlist is written to
playlist_dest(dest_basedir, playlist) ==
    PathJoin(dest_basedir, PathFileName(playlist))

\* copy_single_media_file: the source and the destination of fs::copy
media_src_file(basedir, file) == PathJoin(basedir, file)
media_dest_dir(dest_basedir, file) == PathJoin(dest_basedir, PathParent(file))
media_dest_file(dest_basedir, file) ==
    PathJoin(media_dest_dir(dest_basedir, file), PathFileName(file))

DestInit ==
    /\ PutIdle
    /\ pc = "place"
    /\ playlist_content = << >>
    /\ dest_playlist = << >>
    /\ scanned = << >>
    /\ place_items \in SeqsUpTo(PlaceCalls, MaxEntries) \ {<< >>}
    /\ fs_written = {}
    /\ DeleteIdle
    /\ CopyIdle

\* copy_playlist_file on the next call, when it is a playlist
PlacePlaylist ==
    /\ pc = "place"
    /\ i <= Len(place_items)
    /\ place_items[i][1] = "playlist"
    /\ \E copy_ok \in BOOLEAN :
          fs_written' = IF copy_ok
                        THEN fs_written \cup
                                 {<< "playlist", place_items[i][2],
                                     playlist_dest(DestRoot, place_items[i][2]) >>}
                        ELSE fs_written
    /\ i' = i + 1
    /\ UNCHANGED << cli, fs, retry_work, error_log, pc, total_media_files,
                    successful_media_files, successful_playlists, media_files_map,
                    copied_files, src_basedir, files_vec, successful_files, failures,
                    msgs, summary, exit_code, dest_files, observers,
                    playlist_content, dest_playlist, scanned, place_items,
                    delete_state, copy_state >>

\* copy_single_media_file on the next call, when it is a media line
PlaceMedia ==
    /\ pc = "place"
    /\ i <= Len(place_items)
    /\ place_items[i][1] = "media"
    /\ \E copy_ok \in BOOLEAN :
          fs_written' = IF copy_ok
                        THEN fs_written \cup
                                 {<< "media",
                                     media_src_file(place_items[i][2], place_items[i][3]),
                                     media_dest_file(DestRoot, place_items[i][3]) >>}
                        ELSE fs_written
    /\ i' = i + 1
    /\ UNCHANGED << cli, fs, retry_work, error_log, pc, total_media_files,
                    successful_media_files, successful_playlists, media_files_map,
                    copied_files, src_basedir, files_vec, successful_files, failures,
                    msgs, summary, exit_code, dest_files, observers,
                    playlist_content, dest_playlist, scanned, place_items,
                    delete_state, copy_state >>

DestNext ==
    \/ PlacePlaylist
    \/ PlaceMedia

DestSpec == DestInit /\ [][DestNext]_vars

\* the directories the file system walks through to reach p: "." stays,
\* ".." goes back to the parent, and the parent of the root is the root
RECURSIVE Walk(_, _)
Walk(stack, names) ==
    IF names = << >> THEN stack
    ELSE IF Head(names) = "." THEN Walk(stack, Tail(names))
    ELSE IF Head(names) = ".."
         THEN Walk(IF stack = << >> THEN stack ELSE SubSeq(stack, 1, Len(stack) - 1),
                   Tail(names))
    ELSE Walk(Append(stack, Head(names)), Tail(names))

Resolve(p) == Walk(<< >>, SelectSeq(p, LAMBDA t : t # "/"))

\* the file p is in the tree of the directory root
Inside(p, root) ==
    /\ Len(Resolve(p)) > Len(Resolve(root))
    /\ SubSeq(Resolve(p), 1, Len(Resolve(root))) = Resolve(root)

\* C25: every file the put tool writes for a playlist or a media line is at
\* the destination root joined with the playlist file name or with the
\* relative path of the line, is inside the destination root, and is no file
\* of the tree of a playlist directory, whatever the relative path.
C25_WritesInsideDestination ==
    \A w \in fs_written :
        /\ \E c \in Range(place_items) :
              /\ c[1] = w[1]
              /\ w[3] = IF c[1] = "playlist"
                        THEN PathJoin(DestRoot, PathFileName(c[2]))
                        ELSE PathJoin(DestRoot, c[3])
        /\ Inside(w[3], DestRoot)
        /\ \A d \in SourceDirs : ~Inside(w[3], d)

\* ------------------------------------------------------------------------
\* plm-delete-playlist
\* ------------------------------------------------------------------------
\* the playlists of the delete tool: one given by its bare file name, two
\* of the same directory
DelP1 == << "p1" >>
DelP2 == << "/", "dev", "/", "p2" >>
DelP3 == << "/", "dev", "/", "p3" >>
DeletePlaylists == {DelP1, DelP2, DelP3}

\* a file that no playlist lists
KeptFile == << "other", << "/", "dev", "/", "d", "/", "keep" >> >>

\* the media files and the lyrics files of the lines of a directory
media_targets(base_dir, files) ==
    {<< "media", PathJoin(base_dir, f) >> : f \in files}
    \cup {<< "lyrics", PathJoin(base_dir, f) >> : f \in files}

\* the files the lines of the playlists of the command line name
Referenced(pls, content) ==
    UNION {media_targets(PathParent(p), Range(content[p])) : p \in Range(pls)}

\* the directories above a path, up to the root or the working directory
RECURSIVE AncestorDirs(_)
AncestorDirs(p) ==
    IF PathParent(p) \in {<< >>, << "/" >>, << "." >>} THEN {}
    ELSE {PathParent(p)} \cup AncestorDirs(PathParent(p))

\* the path p is below the directory d; the empty d is the working directory
Under(p, d) ==
    IF d = << >> THEN p # << >> /\ Head(p) # "/"
    ELSE /\ Len(p) > Len(d) + 1
         /\ SubSeq(p, 1, Len(d)) = d
         /\ p[Len(d) + 1] = "/"

\* delete_media_files: the files that are left
delete_media_files(t, base_dir, files) == t \ media_targets(base_dir, files)

\* delete_empty_dirs: the directories that are left; a directory goes when
\* no file is left below it
delete_empty_dirs(ds, t, dir) ==
    IF dir \notin ds THEN ds
    ELSE ds \ {d \in ds : /\ d = dir \/ Under(d, dir)
                          /\ ~ \E e \in t : Under(e[2], d)}

delete_media_always(flag) == TRUE

\* main: `if cli.media`
delete_media_requested(flag) == flag

DeleteInit ==
    /\ playlist_content = << >>
    /\ dest_playlist = << >>
    /\ scanned = << >>
    /\ place_items = << >>
    /\ fs_written = {}
    /\ CopyIdle
    /\ playlists \in SeqsUpTo(DeletePlaylists, MaxPlaylists) \ {<< >>}
    /\ media \in BOOLEAN
    /\ fs_content \in [DeletePlaylists -> SeqsUpTo(RelPaths, MaxEntries)]
    /\ \A p \in DeletePlaylists : p \notin Range(playlists) => fs_content[p] = << >>
    /\ \E existing \in SUBSET (Referenced(playlists, fs_content) \cup {KeptFile}) :
          tree = {<< "playlist", p >> : p \in Range(playlists)} \cup existing
    /\ dirs = UNION {AncestorDirs(e[2]) :
                        e \in Referenced(playlists, fs_content)
                              \cup {<< "playlist", p >> : p \in Range(playlists)}
                              \cup (tree \cap {KeptFile})}
    /\ del_trace = << >>
    /\ pc = "delete_playlists"
    /\ i = 1
    /\ i_media = 1
    /\ media_files_map = << >>
    /\ exit_code = 0
    /\ keep_going = FALSE
    /\ lyrics = FALSE
    /\ error_files = NoPath
    /\ retry_file = NoPath
    /\ fs_unreadable = {}
    /\ retry_log = << >>
    /\ error_log = << >>
    /\ retry_playlists = << >>
    /\ retry_media = << >>
    /\ total_media_files = 0
    /\ successful_media_files = 0
    /\ successful_playlists = 0
    /\ copied_files = {}
    /\ src_basedir = << >>
    /\ files_vec = << >>
    /\ successful_files = << >>
    /\ failures = << >>
    /\ msgs = << >>
    /\ summary = NoSummary
    /\ dest_files = {}
    /\ attempts = [x \in Items |-> 0]
    /\ copies = [x \in Items |-> << >>]
    /\ processed = << >>
    /\ fail_hist = << >>
    /\ retry_hist = << >>
    /\ lyrics_hist = {}
    /\ sidecar_attempts = 0

\* main, first loop: extract_media_files and delete_playlist_file on the
\* next playlist
DeletePlaylist ==
    /\ pc = "delete_playlists"
    /\ i <= Len(playlists)
    /\ LET playlist == playlists[i] IN
       IF << "playlist", playlist >> \notin tree
       THEN /\ del_trace' = Append(del_trace, << "open", playlist >>)
            /\ Exit(1)
            /\ UNCHANGED << i, media_files_map, tree >>
       ELSE /\ media_files_map' = add_to_map(media_files_map, PathParent(playlist),
                                             extract_files(playlist))
            /\ \E remove_ok \in BOOLEAN :
                 IF remove_ok
                 THEN /\ tree' = tree \ {<< "playlist", playlist >>}
                      /\ i' = i + 1
                      /\ UNCHANGED << pc, exit_code, del_trace >>
                 ELSE /\ del_trace' = Append(del_trace, << "remove", playlist >>)
                      /\ Exit(1)
                      /\ UNCHANGED << i, tree >>
    /\ UNCHANGED << cli, fs, retry_work, error_log, total_media_files,
                    successful_media_files, successful_playlists, copied_files,
                    src_basedir, files_vec, successful_files, failures, msgs,
                    summary, dest_files, observers, playlist_content,
                    dest_playlist, scanned, place_items, fs_written, media, dirs,
                    copy_state >>

all_playlists_deleted_after_first(k, pls) == k > 1

\* main: the first loop has gone through `cli.playlists`
all_playlists_deleted(k, pls) == k > Len(pls)

\* main: the playlists are done, `if cli.media`
DeletePlaylistsDone ==
    /\ pc = "delete_playlists"
    /\ all_playlists_deleted(i, playlists)
    /\ pc' = IF delete_media_requested(media) THEN "delete_media" ELSE "done"
    /\ UNCHANGED << cli, fs, retry_work, error_log, run_state, exit_code,
                    observers, units >>

\* main, second loop: delete_media_files and delete_empty_dirs on the next
\* directory of the map; an error of delete_empty_dirs is printed and the
\* run goes on
DeleteMediaFiles ==
    /\ pc = "delete_media"
    /\ i_media <= Len(media_files_map)
    /\ LET base_dir == media_files_map[i_media][1]
           files == media_files_map[i_media][2]
           targets == tree \cap media_targets(base_dir, files)
       IN \/ /\ tree' = delete_media_files(tree, base_dir, files)
             /\ \E prune_ok \in BOOLEAN :
                  IF prune_ok \/ base_dir \notin dirs
                  THEN /\ dirs' = delete_empty_dirs(dirs, tree', base_dir)
                       /\ UNCHANGED del_trace
                  ELSE /\ del_trace' = Append(del_trace, << "prune", base_dir >>)
                       /\ UNCHANGED dirs
             /\ i_media' = i_media + 1
             /\ UNCHANGED << pc, exit_code >>
          \/ /\ targets # {}
             /\ \E removed \in SUBSET targets :
                  /\ removed # targets
                  /\ tree' = tree \ removed
             /\ del_trace' = Append(del_trace, << "remove", base_dir >>)
             /\ Exit(1)
             /\ UNCHANGED << i_media, dirs >>
    /\ UNCHANGED << cli, fs, retry_playlists, retry_media, error_log, run_state,
                    observers, playlist_content, dest_playlist, scanned,
                    place_items, fs_written, media, copy_state >>

\* main: the directories of the map are done
DeleteDone ==
    /\ pc = "delete_media"
    /\ i_media > Len(media_files_map)
    /\ pc' = "done"
    /\ UNCHANGED << cli, fs, retry_work, error_log, run_state, exit_code,
                    observers, units >>

DeleteNext ==
    \/ DeletePlaylist
    \/ DeletePlaylistsDone
    \/ DeleteMediaFiles
    \/ DeleteDone

DeleteSpec == DeleteInit /\ [][DeleteNext]_vars

\* C27: without the media flag a run of the delete tool removes only
\* playlist files named on the command line: no media file, no lyrics file,
\* no other file and no directory is removed, and none is created.
C27_OnlyPlaylistsRemoved ==
    [][~media =>
          /\ tree' \subseteq tree
          /\ tree \ tree' \subseteq {<< "playlist", p >> : p \in Range(playlists)}
          /\ dirs' = dirs]_vars

C27_Witness ==
    /\ ~media
    /\ pc = "done"
    /\ exit_code = 0
    /\ Len(playlists) = MaxPlaylists
    /\ \A p \in Range(playlists) : << "playlist", p >> \notin tree
    /\ \E p \in Range(playlists) :
          /\ Len(fs_content[p]) = MaxEntries
          /\ media_targets(PathParent(p), Range(fs_content[p])) \subseteq tree
    /\ \E d \in dirs : ~ \E e \in tree : Under(e[2], d)

\* the given playlists, the media files their lines name and the lyrics
\* files of these are gone
AllRemoved ==
    /\ \A p \in Range(playlists) : << "playlist", p >> \notin tree
    /\ Referenced(playlists, fs_content) \cap tree = {}

\* no directory below the directory of a given playlist is empty
NoEmptyDirLeft ==
    \A p \in Range(playlists) : \A d \in dirs :
        Under(d, PathParent(p)) => \E e \in tree : Under(e[2], d)

\* C28: after a run of the delete tool with the media flag that exits with
\* 0, the given playlists, the media files they name and the lyrics files of
\* these no longer exist and no empty directory is left below the directory
\* of a given playlist; the run exits with 1 only when a playlist cannot be
\* opened or a file cannot be removed, never because a media file is named
\* twice or is missing.
C28_MediaRunRemovesAll ==
    /\ (media /\ pc = "done" /\ exit_code = 0) => (AllRemoved /\ NoEmptyDirLeft)
    /\ (media /\ pc = "done" /\ exit_code = 1) =>
           (del_trace # << >> /\ Last(del_trace)[1] \in {"open", "remove"})

\* ------------------------------------------------------------------------
\* file_utils::generic_copy_file
\* ------------------------------------------------------------------------
\* the content of a file: a text, or the file does not exist
Absent == "absent"

\* the calls: the source, the destination as it is before the call, whether
\* its directory exists, the results create_dir_all and fs::copy give when
\* nothing is missing, and the answer of the callback
CopyCalls ==
    [src : {Absent, "new", "other"}, dest : {Absent, "old"}, dir_exists : BOOLEAN,
     mkdir_ok : BOOLEAN, copy_ok : BOOLEAN, continue : BOOLEAN]

on_error_result_swapped(continue) == IF continue THEN "Err" ELSE "Ok(false)"

\* what generic_copy_file returns once on_error has answered
on_error_result(continue) == IF continue THEN "Ok(false)" ELSE "Err"

GenericCopyInit ==
    /\ PutIdle
    /\ pc = "generic_copy_file"
    /\ playlist_content = << >>
    /\ dest_playlist = << >>
    /\ scanned = << >>
    /\ place_items = << >>
    /\ fs_written = {}
    /\ DeleteIdle
    /\ copy_call \in {c \in CopyCalls : c.dest # Absent => c.dir_exists}
    /\ copy_out = << >>

\* generic_copy_file: the directory of the destination is created when it
\* does not exist, then the file is copied; fs::copy opens the source before
\* it creates or truncates the destination
GenericCopyFile ==
    /\ pc = "generic_copy_file"
    /\ pc' = "returned"
    /\ IF ~copy_call.dir_exists /\ ~copy_call.mkdir_ok
       THEN copy_out' = [result |-> on_error_result(copy_call.continue),
                         on_error_calls |-> 1, dest |-> copy_call.dest]
       ELSE IF copy_call.src # Absent /\ copy_call.copy_ok
       THEN copy_out' = [result |-> "Ok(true)", on_error_calls |-> 0,
                         dest |-> copy_call.src]
       ELSE \E left \in (IF copy_call.src = Absent
                         THEN {copy_call.dest}
                         ELSE {copy_call.dest, "partial"}) :
               copy_out' = [result |-> on_error_result(copy_call.continue),
                            on_error_calls |-> 1, dest |-> left]
    /\ UNCHANGED << cli, fs, retry_work, error_log, run_state, exit_code, observers,
                    playlist_content, dest_playlist, scanned, place_items,
                    fs_written, delete_state, copy_call >>

GenericCopyNext == GenericCopyFile

GenericCopySpec == GenericCopyInit /\ [][GenericCopyNext]_vars

\* the two steps of the call succeed
StepsSucceed ==
    /\ copy_call.dir_exists \/ copy_call.mkdir_ok
    /\ copy_call.src # Absent /\ copy_call.copy_ok

\* what the claim says of the result and of the callback
ResultAndCallback ==
    /\ copy_out.result = "Ok(true)" <=> StepsSucceed
    /\ copy_out.result = "Ok(true)" =>
           (copy_out.on_error_calls = 0 /\ copy_out.dest = copy_call.src)
    /\ ~StepsSucceed =>
           /\ copy_out.on_error_calls = 1
           /\ copy_out.result = IF copy_call.continue THEN "Ok(false)" ELSE "Err"

\* the call has tried to copy a source that does not exist
MissingSourceCopied ==
    /\ copy_call.dir_exists \/ copy_call.mkdir_ok
    /\ copy_call.src = Absent

\* C29 as stated: generic_copy_file returns Ok(true) exactly when both steps
\* succeed, then without a call of on_error and with the destination holding
\* the source; otherwise on_error is called once and its answer gives
\* Ok(false) or Err; after a failed copy of a missing source the destination
\* does not exist.
C29_AsStated ==
    pc = "returned" =>
        /\ ResultAndCallback
        /\ MissingSourceCopied => copy_out.dest = Absent

\* C29, amended: the same, except that after a failed copy of a missing
\* source the destination is as it was before the call: it does not exist
\* when it did not exist, and a destination that existed is still there.
C29_GenericCopyFile ==
    pc = "returned" =>
        /\ ResultAndCallback
        /\ MissingSourceCopied => copy_out.dest = copy_call.dest

C29_Witness ==
    /\ pc = "returned"
    /\ MissingSourceCopied
    /\ copy_call.dest = "old"
    /\ copy_call.continue
    /\ copy_out = [result |-> "Ok(false)", on_error_calls |-> 1, dest |-> "old"]

\* a step of the delete tool that removes a file that is no playlist, or a
\* directory
MediaOrDirRemoved ==
    \/ \E e \in tree \ tree' : e[1] # "playlist"
    \/ dirs' # dirs

\* C38: the delete tool removes no media file, lyrics file or directory
\* before every playlist of the command line has been parsed and removed;
\* when a playlist cannot be opened or removed the run exits with 1, nothing
\* but playlists has been removed, and the playlists before the failing one
\* stay removed.
C38_MediaAfterAllPlaylists ==
    /\ [][MediaOrDirRemoved =>
             /\ i > Len(playlists)
             /\ \A p \in Range(playlists) : << "playlist", p >> \notin tree]_vars
    /\ [][pc = "delete_playlists" =>
             /\ tree' \subseteq tree
             /\ tree \ tree' \subseteq
                    {<< "playlist", playlists[k] >> : k \in {i} \cap DOMAIN playlists}
             /\ dirs' = dirs]_vars
    /\ []((pc = "done" /\ i <= Len(playlists)) =>
             /\ exit_code = 1
             /\ i_media = 1
             /\ \A k \in 1..(i - 1) : << "playlist", playlists[k] >> \notin tree)

C38_Witness ==
    /\ media
    /\ pc = "done"
    /\ exit_code = 1
    /\ Len(playlists) = 2
    /\ i = 2
    /\ << "playlist", playlists[1] >> \notin tree
    /\ << "playlist", playlists[2] >> \in tree
    /\ Len(fs_content[playlists[1]]) = MaxEntries
    /\ media_targets(PathParent(playlists[1]), Range(fs_content[playlists[1]]))
           \subseteq tree

\* C37: the three playlist parsers, read_playlist of the scanner and
\* extract_media_files of the put tool and of the delete tool, return the
\* same sequence of relative paths for every playlist content.
C37_ParsersAgree ==
    /\ pc = "scanned" =>
          /\ scanned = extract_media_files(playlist_content)
          /\ scanned = delete_extract_media_files(playlist_content)
    /\ pc = "extracted" =>
          /\ scanned = read_playlist(playlist_content)
          /\ scanned = delete_extract_media_files(playlist_content)
    /\ pc = "delete_extracted" =>
          /\ scanned = read_playlist(playlist_content)
          /\ scanned = extract_media_files(playlist_content)

C37_Witness ==
    /\ pc = "delete_extracted"
    /\ playlist_content = << "BOM", "#", "\n", "\\" >>
    /\ scanned = << << "/" >> >>

\* C31: in a normal run, each time the loop has finished with a playlist
\* the successful-media counter is the number of elements of copied_files,
\* and copied_files holds only pairs the pre-pass has counted.
C31_CounterIsCopiedSetSize ==
    (retry_file = NoPath /\ pc = "loop") =>
        /\ successful_media_files = Cardinality(copied_files)
        /\ copied_files \subseteq all_media_files(playlists)

\* the media failures of the tracker, in their order
MediaFailures == SelectSeq(failures, LAMBDA f : f[1] = "MediaFile")

\* the full path of a media failure, as the log holds it
LoggedPath(f) == PathJoin(f[2], f[3])

\* C32: an "M" line whose path holds /MUSIC/ is parsed into the path up to
\* and including the first /MUSIC/ as base directory and the rest as
\* relative path, the two joined give the path of the line, and the base
\* directory is the one the playlist of that MUSIC directory gave for the
\* file, the same key of the set of copied files.
C32_MusicMarkerSplit ==
    (pc = "parsed" /\ \A k \in 1..Len(MediaFailures) :
                          MusicIdx(LoggedPath(MediaFailures[k])) > 0) =>
        /\ Len(retry_media) = Len(MediaFailures)
        /\ \A k \in 1..Len(retry_media) :
              LET path == LoggedPath(MediaFailures[k]) IN
              /\ retry_media[k][1] = SubSeq(path, 1, MusicIdx(path) + 2)
              /\ retry_media[k][2] = SubSeq(path, MusicIdx(path) + 3, Len(path))
              /\ PathJoin(retry_media[k][1], retry_media[k][2]) = path
              /\ retry_media[k][1] = MediaFailures[k][2]

\* the "M" lines of the log given to --retry whose media file has failed
\* again in this run
FailedAgain ==
    {l \in Range(LinesOf(retry_log, "M")) :
        \E x \in Range(parse_media_path(AfterPrefix(l))) :
            << "MediaFile", x[1], x[2] >> \in Range(fail_hist)}

\* a keep-going retry run that has written a new failure log
NewLogWritten ==
    /\ retry_file # NoPath
    /\ keep_going
    /\ error_files # NoPath
    /\ ~same_file(error_files, retry_file)
    /\ pc = "done"
    /\ exit_code = 0

\* C33: a media entry of the failure log that fails again in a keep-going
\* retry is in the new failure log as the identical "M" line, for paths
\* with the /MUSIC/ marker and for fallback paths: a further retry reads the
\* same line again.
C33_RetryLogFixedPoint ==
    NewLogWritten => FailedAgain \subseteq Range(error_log)

\* the number of times x is in the sequence s
Occurrences(s, x) == Cardinality({k \in 1..Len(s) : s[k] = x})

\* C34: in a keep-going run with an error log, a playlist that cannot be
\* opened is read by the pre-pass and by the loop and is recorded once for
\* each time it is given: the pre-pass records nothing, and the log that is
\* written holds one "P" line for it.
C34_OneRecordPerUnreadablePlaylist ==
    /\ [][pc = "prepass" => failures' = failures]_vars
    /\ []((retry_file = NoPath /\ keep_going /\ error_files # NoPath
              /\ pc = "done" /\ exit_code = 0) =>
             \A p \in Range(playlists) :
                 extract_fails(p) =>
                     /\ Occurrences(failures, << "Playlist", p >>)
                            = Occurrences(playlists, p)
                     /\ Occurrences(error_log, << "P", " " >> \o p)
                            = Occurrences(playlists, p))

C34_Witness ==
    /\ retry_file = NoPath
    /\ keep_going
    /\ error_files # NoPath
    /\ pc = "done"
    /\ exit_code = 0
    /\ Len(playlists) = 2
    /\ extract_fails(playlists[1])
    /\ ~extract_fails(playlists[2])
    /\ error_log = << << "P", " " >> \o playlists[1] >>
    /\ summary[1] = 1

\* a playlist of the command line cannot be opened
SomeUnreadable == \E k \in 1..Len(playlists) : extract_fails(playlists[k])

NothingCopied ==
    /\ dest_files = {}
    /\ processed = << >>
    /\ \A item \in DOMAIN attempts : attempts[item] = 0

\* C35: in a normal run without keep-going in which a playlist of the
\* command line cannot be opened, the pre-pass ends the run with exit code 1,
\* the loop over the playlists is never entered, and nothing has been copied,
\* the playlists given before the unreadable one included.
C35_AbortInPrePass ==
    /\ [][(pc = "prepass" /\ ~keep_going /\ SomeUnreadable) =>
              (pc' = "done" /\ exit_code' = 1 /\ NothingCopied')]_vars
    /\ []((retry_file = NoPath /\ ~keep_going /\ SomeUnreadable) =>
              (pc \in {"start", "prepass", "done"} /\ NothingCopied))

C35_Witness ==
    /\ retry_file = NoPath
    /\ ~keep_going
    /\ Len(playlists) = 2
    /\ ~extract_fails(playlists[1])
    /\ fs_content[playlists[1]] # << >>
    /\ extract_fails(playlists[2])
    /\ pc = "done"
    /\ exit_code = 1
    /\ total_media_files = 0
    /\ NothingCopied

\* C36: when the tool exits with code 255, no file has been created,
\* truncated or copied: the step that sets the exit code leaves the file
\* named by --error-files with its previous content, and nothing is at the
\* destination.
C36_Exit255TouchesNothing ==
    [][(pc' = "done" /\ exit_code' = 255) =>
           (error_log' = error_log /\ retry_log' = retry_log /\ NothingCopied')]_vars

====
